---------------------------- MODULE Spec2Model ----------------------------
(***************************************************************************)
(* State-machine model of the IEC 61850 Sampled Value publisher:           *)
(*   - PhasorInjectionTest / ComtradeReplayTest life cycle                 *)
(*     (configure, run, stop, transmissionLoop, gooseCaptureThreadFunc),   *)
(*   - SampledValue (buildPacket's sample synthesis, incrementSampleCount),*)
(*   - Ethernet / Virtual_LAN constructors (validation by exception),      *)
(*   - decodeGoose on byte frames.                                         *)
(* Strings that the code inspects character by character (MAC addresses)  *)
(* are sequences of one-character strings; frames and gocbRef values are  *)
(* sequences of bytes.                                                     *)
(***************************************************************************)
EXTENDS Integers, Sequences, FiniteSets, TLC

(***************************************************************************)
(* Bounds of the model                                                     *)
(***************************************************************************)
\* frames one run may submit to the socket before the model stops following it
MaxFrames == 3

\* run() calls that pass the entry checks, per object
MaxRuns == 1

\* largest sample index getSampleRate is asked about
MaxSampleIndex == 4

\* largest sampleRate the recordings of RampFiles are resampled to
MaxOutputRate == 8

\* longest svID a packet is built for
MaxSvIdLength == 200

\* value of a 16-bit unsigned field wraps at this modulus (uint16_t)
U16 == 65536

\* number of SV channels in one ASDU
NumSvChannels == 8

\* bits in the significand of a double (IEEE-754 binary64)
DoubleMantissa == 53
\* the model holds the significand of a double in four digits of LimbBits
\* bits, that is, in base Limb
LimbBits == (DoubleMantissa + 3) \div 4
Limb == 2^LimbBits

(***************************************************************************)
(* Small arithmetic helpers                                                *)
(***************************************************************************)
Abs(x) == IF x < 0 THEN -x ELSE x

\* C++ conversion double -> int32_t of the quotient n/d (d > 0): truncation
\* toward zero
TruncDiv(n, d) == IF n >= 0 THEN n \div d ELSE -((-n) \div d)

(***************************************************************************)
(* Ethernet: MAC address strings (ethernet.h)                              *)
(***************************************************************************)
HexDigits == {"0","1","2","3","4","5","6","7","8","9",
              "A","B","C","D","E","F","a","b","c","d","e","f"}

HexVal(c) ==
    CASE c = "0" -> 0 [] c = "1" -> 1 [] c = "2" -> 2 [] c = "3" -> 3
      [] c = "4" -> 4 [] c = "5" -> 5 [] c = "6" -> 6 [] c = "7" -> 7
      [] c = "8" -> 8 [] c = "9" -> 9
      [] c \in {"A","a"} -> 10 [] c \in {"B","b"} -> 11
      [] c \in {"C","c"} -> 12 [] c \in {"D","d"} -> 13
      [] c \in {"E","e"} -> 14 [] c \in {"F","f"} -> 15
      [] OTHER -> -1

\* std::stoi(two characters, nullptr, 16): leading blanks and one sign are
\* skipped, then the longest run of hex digits is converted; "no conversion"
\* (-1 below) makes stoi throw.  The result is cast to uint8_t.
StoiHex2(c1, c2) ==
    IF c1 \in HexDigits
    THEN IF c2 \in HexDigits THEN 16 * HexVal(c1) + HexVal(c2) ELSE HexVal(c1)
    ELSE IF c1 \in {" ", "+"} /\ c2 \in HexDigits THEN HexVal(c2)
    ELSE IF c1 = "-" /\ c2 \in HexDigits THEN (256 - HexVal(c2)) % 256
    ELSE -1

\* macStrToBytes: TRUE iff it throws std::invalid_argument
MacThrows(mac) ==
    \/ Len(mac) # 17
    \/ \E b \in 0..5 :
          \/ b > 0 /\ mac[3 * b] # ":"
          \/ StoiHex2(mac[3 * b + 1], mac[3 * b + 2]) = -1

\* macStrToBytes: the six bytes (only used where MacThrows is FALSE)
macStrToBytes(mac) ==
    [b \in 1..6 |-> StoiHex2(mac[3 * (b - 1) + 1], mac[3 * (b - 1) + 2])]

\* Ethernet::Ethernet(dst, src): validates src then dst
EthernetCtorThrows(dst, src) == MacThrows(src) \/ MacThrows(dst)

\* Ethernet::getEncoded: the destination MAC, then the source MAC
EthernetGetEncoded(dst, src) == macStrToBytes(dst) \o macStrToBytes(src)

(***************************************************************************)
(* Virtual_LAN constructor (vlan.h)                                        *)
(***************************************************************************)
VlanCtorThrows(pri, id) == pri > 7 \/ id > 4095

\* mutation: the priority is shifted by 12 bits
VlanGetEncodedShift12(pri, dei, id) ==
    <<129, 0, ((pri * 4096 + id) % U16) \div 256, id % 256>>

\* Virtual_LAN::getEncoded: TPID 0x8100, then the TCI big-endian.  The
\* constructor has checked pri <= 7 and id <= 4095, so the three fields of
\* (priority << 13) | (DEI << 12) | ID do not overlap and the OR is their sum.
VlanGetEncoded(pri, dei, id) ==
    LET Tag(tci) == <<129, 0, (tci \div 256) % 256, tci % 256>>
    IN  Tag((pri * 8192 + (IF dei THEN 4096 ELSE 0) + id) % U16)

(***************************************************************************)
(* SampledValue (sampled_value.h)                                          *)
(***************************************************************************)
\* SampledValue(app_id, sv_id, sample_rate): noAsdu(1), smpCnt(0), confRev(1),
\* smpSynch(1).  svID is the sequence of the string's bytes.
NewSampledValue(app_id, sv_id, rate) ==
    [appID |-> app_id, noAsdu |-> 1, svID |-> sv_id, smpCnt |-> 0, confRev |-> 1,
     smpSynch |-> 1, smpRate |-> rate]

\* mutation: the counter is reset only when it has passed smpRate
IncrementSampleCountLate(s) ==
    LET c == (s.smpCnt + 1) % U16
    IN  [s EXCEPT !.smpCnt = IF c > s.smpRate THEN 0 ELSE c]

\* incrementSampleCount: smpCnt++ on uint16_t; if (smpCnt >= smpRate) smpCnt = 0
incrementSampleCount(s) ==
    LET c == (s.smpCnt + 1) % U16
    IN  [s EXCEPT !.smpCnt = IF c >= s.smpRate THEN 0 ELSE c]

\* buildPacket, lines 55-66: samples[i] =
\*   static_cast<int32_t>(magnitude * 1.414213562 * cos(omega*t + angle_rad));
\* the angle is given in degrees (a multiple of 15 in the model).
SynthSample(mag, angleDeg, smpCnt, smpRate) ==
    LET \* cos of an angle given in 24ths of a turn (15 degree steps), times 1000
        CosE3(q) ==
            <<1000, 966, 866, 707, 500, 259, 0, -259, -500, -707, -866, -966,
              -1000, -966, -866, -707, -500, -259, 0, 259, 500, 707, 866, 966>>[(q % 24) + 1]
        \* omega * t = 2*pi*60*smpCnt/smpRate, in 24ths of a turn.  The model
        \* draws sample rates that divide 1440, for which this is a whole number.
        PhaseOf == ((1440 * smpCnt) \div smpRate) % 24
    IN  TruncDiv(mag * 1414 * CosE3(PhaseOf + ((angleDeg \div 15) % 24)), 1000000)

\* mutation: the length field leaves out APPID and the length field itself
totalLenFromReserved(lengthBytes, savpduLen) == (4 + 1 + lengthBytes + savpduLen) % U16

\* buildPacket, line 165: uint16_t totalLen = 4 + 1 + lengthBytes + savpduLen + 4
totalLen(lengthBytes, savpduLen) == (4 + 1 + lengthBytes + savpduLen + 4) % U16

\* buildPacket, lines 68-201: the bytes from the EtherType on, for the eight
\* INT32 samples of lines 55-66 and the eight quality words (all 0 when the
\* caller passes none).  (v >> 8k) & 0xFF of a negative int32_t is the byte of
\* its two's complement, which is what floor division and modulus give.
buildPacket(s, samples, qualities) ==
    LET Be16(v) == <<(v \div 256) % 256, v % 256>>
        Be32(v) == <<(v \div 16777216) % 256, (v \div 65536) % 256,
                     (v \div 256) % 256, v % 256>>
        SeqData(i) ==
            IF ((i - 1) % 8) < 4
            THEN Be32(samples[(i - 1) \div 8])[((i - 1) % 8) + 1]
            ELSE Be32(qualities[(i - 1) \div 8])[((i - 1) % 8) - 3]
        \* asduData.size(): the svID field, smpCnt (4), confRev (6),
        \* smpSynch (3), smpRate (4) and seqData (2 + 64)
        asduSize == 2 + Len(s.svID) + 4 + 6 + 3 + 4 + 66
        \* the length octets of lines 126-131 and 145-150 for a body of n bytes
        Wrap(n) == IF n % U16 > 127 THEN <<129, n % 256>> ELSE <<n % 256>>
        \* seqAsdu.size() and savpdu.size()
        seqAsduSize == 1 + Len(Wrap(asduSize)) + asduSize
        savpduLen == (3 + 1 + Len(Wrap(seqAsduSize)) + seqAsduSize) % U16
        lengthBytes == IF savpduLen > 255 THEN 3 ELSE IF savpduLen > 127 THEN 2 ELSE 1
    IN  <<136, 186>> \o Be16(s.appID)
        \o Be16(totalLen(lengthBytes, savpduLen))
        \o <<0, 0, 0, 0>>
        \o <<96>>
        \o (IF savpduLen > 255 THEN <<130>> \o Be16(savpduLen)
            ELSE IF savpduLen > 127 THEN <<129, savpduLen % 256>>
            ELSE <<savpduLen % 256>>)
        \o <<128, 1, s.noAsdu>>
        \o <<162>> \o Wrap(seqAsduSize)
        \o <<48>> \o Wrap(asduSize)
        \o <<128, Len(s.svID) % 256>> \o s.svID
        \o <<130, 2>> \o Be16(s.smpCnt)
        \o <<131, 4>> \o Be32(s.confRev)
        \o <<133, 1, s.smpSynch>>
        \o <<134, 2>> \o Be16(s.smpRate)
        \o <<135, 64>> \o [i \in 1..64 |-> SeqData(i)]

(***************************************************************************)
(* COMTRADE recordings seen through ComtradeParser's accessors             *)
(* (load, getAllSamples, getSampleRate(0), getAnalogChannel)               *)
(***************************************************************************)
\* a recording that loads: two analog channels, two samples at 2 Hz
FileA ==
    [loads    |-> TRUE,
     rate     |-> 2,
     channels |-> << [name |-> "IA", index |-> 0], [name |-> "VA", index |-> 1] >>,
     samples  |-> << <<100, -250>>, <<50, 7>> >>]

\* recordings of several lengths: path :> <<number of samples, sample rate>>
RampFiles ==
    [path \in {"s1r3.cfg", "s2r3.cfg", "s3r3.cfg", "s4r3.cfg",
               "s26r3.cfg", "s27r3.cfg", "s28r3.cfg"} |->
        <<CASE path = "s1r3.cfg" -> 1 [] path = "s2r3.cfg" -> 2
            [] path = "s3r3.cfg" -> 3 [] path = "s4r3.cfg" -> 4
            [] path = "s26r3.cfg" -> 26 [] path = "s27r3.cfg" -> 27
            [] OTHER -> 28, 3>>]
    @@ [path \in {"s1r7.cfg", "s2r7.cfg", "s3r7.cfg", "s4r7.cfg",
                  "s26r7.cfg", "s27r7.cfg", "s28r7.cfg"} |->
        <<CASE path = "s1r7.cfg" -> 1 [] path = "s2r7.cfg" -> 2
            [] path = "s3r7.cfg" -> 3 [] path = "s4r7.cfg" -> 4
            [] path = "s26r7.cfg" -> 26 [] path = "s27r7.cfg" -> 27
            [] OTHER -> 28, 7>>]

\* parser.load(cfgFilePath, datFilePath) for the paths of the model; a file of
\* RampFiles holds channels IA and VA, sample i being <<10 i, -3 i>>
ParserLoad(path) ==
    LET Ramp(n, rate) ==
            [loads    |-> TRUE,
             rate     |-> rate,
             channels |-> << [name |-> "IA", index |-> 0],
                             [name |-> "VA", index |-> 1] >>,
             samples  |-> [i \in 1..n |-> <<10 * i, 0 - 3 * i>>]]
        \* a recording whose .dat holds no sample
        FileEmpty ==
            [loads |-> TRUE, rate |-> 2,
             channels |-> << [name |-> "IA", index |-> 0] >>, samples |-> << >>]
        \* the recording of FileA with analog lines numbered 5 and 2 in the
        \* .cfg: load() stores the number of each line minus 1 as the channel's
        \* index (comtrade_parser.cpp:295), the values stay in the order of
        \* the lines
        FileGap ==
            [FileA EXCEPT !.channels = << [name |-> "IA", index |-> 4],
                                          [name |-> "VA", index |-> 1] >>]
        \* a recording at 1 Hz whose two channels stay at 7 and at -250
        FileFlat ==
            [loads |-> TRUE, rate |-> 1,
             channels |-> << [name |-> "IA", index |-> 0],
                             [name |-> "VA", index |-> 1] >>,
             samples |-> << <<7, -250>>, <<7, -250>> >>]
        \* the recording of FileA with analog lines numbered 0 and 1: IA gets
        \* the index -1.  stray is what the eight bytes in front of a
        \* sample's analogValues happen to hold as a double
        FileZero(stray) ==
            [loads |-> TRUE, rate |-> FileA.rate,
             channels |-> << [name |-> "IA", index |-> -1],
                             [name |-> "VA", index |-> 0] >>,
             samples |-> FileA.samples, stray |-> stray]
        \* parser.load() returns false
        FileBad == [loads |-> FALSE, rate |-> 0, channels |-> << >>, samples |-> << >>]
    IN  CASE path = "a.cfg"     -> FileA
          [] path = "gap.cfg"   -> FileGap
          [] path = "empty.cfg" -> FileEmpty
          [] path = "flat.cfg"  -> FileFlat
          [] path = "zero.cfg"  -> FileZero(0)
          [] path = "zero2.cfg" -> FileZero(12345)
          [] path \in DOMAIN RampFiles -> Ramp(RampFiles[path][1], RampFiles[path][2])
          [] OTHER              -> FileBad

\* ComtradeParser::getAnalogChannel: first channel with that name, or none (0)
getAnalogChannel(f, name) ==
    LET hits == {i \in 1..Len(f.channels) : f.channels[i].name = name}
    IN  IF hits = {} THEN 0 ELSE CHOOSE i \in hits : \A j \in hits : i <= j

(***************************************************************************)
(* Resampling (comtrade_replay_test.cpp, resampleData / interpolateLinear) *)
(***************************************************************************)
\* The code computes in double (IEEE-754 binary64, every operation rounded to
\* the nearest double, ties to even); the model computes the same doubles.
\* A natural number is the sequence of its digits in base Limb, the least
\* significant first, without zeros at the end.
BigTrim(x) ==
    LET nz == {i \in 1..Len(x) : x[i] # 0}
    IN  IF nz = {} THEN << >>
        ELSE SubSeq(x, 1, CHOOSE i \in nz : \A j \in nz : j <= i)

\* the number whose digits are raw, each of them possibly beyond a digit's
\* range (or below zero, the number itself being >= 0): propagate the
\* carries; st holds the carry and the digits done
RECURSIVE BigCarry(_, _)
BigCarry(raw, st) ==
    LET i == Len(st.digits) + 1
        t == (IF i <= Len(raw) THEN raw[i] ELSE 0) + st.carry
    IN  IF (i > Len(raw) /\ st.carry = 0) \/ i > Len(raw) + 2 THEN BigTrim(st.digits)
        ELSE BigCarry(raw, [carry  |-> (t - (t % Limb)) \div Limb,
                            digits |-> st.digits \o <<t % Limb>>])

\* a + s * b, for s = 1 or -1 (a >= b when s = -1)
BigSum(a, b, s) ==
    BigCarry([i \in 1..(IF Len(a) > Len(b) THEN Len(a) ELSE Len(b)) |->
                 (IF i <= Len(a) THEN a[i] ELSE 0) + s * (IF i <= Len(b) THEN b[i] ELSE 0)],
             [carry |-> 0, digits |-> << >>])

\* a >= b
BigGeq(a, b) ==
    LET d == {i \in 1..Len(a) : i > Len(b) \/ a[i] # b[i]}
    IN  IF Len(a) # Len(b) THEN Len(a) > Len(b)
        ELSE d = {} \/ LET i == CHOOSE i \in d : \A j \in d : j <= i IN a[i] > b[i]

\* a * 2^k
BigShl(a, k) ==
    LET q == k \div LimbBits
        r == k % LimbBits
        D(j) == IF j >= 1 /\ j <= Len(a) THEN a[j] ELSE 0
    IN  BigTrim([i \in 1..(Len(a) + q + 1) |->
                    ((D(i - q) * 2^r) % Limb) + (D(i - q - 1) \div 2^(LimbBits - r))])

\* a \div 2^k
BigShr(a, k) ==
    LET q == k \div LimbBits
        r == k % LimbBits
        D(j) == IF j >= 1 /\ j <= Len(a) THEN a[j] ELSE 0
    IN  BigTrim([i \in 1..(IF Len(a) > q THEN Len(a) - q ELSE 0) |->
                    (D(i + q) \div 2^r) + (D(i + q + 1) % 2^r) * 2^(LimbBits - r)])

\* a % 2^k is not zero
BigLow(a, k) ==
    \E i \in 1..Len(a) :
        \/ i <= k \div LimbBits /\ a[i] # 0
        \/ i = k \div LimbBits + 1 /\ (a[i] % 2^(k % LimbBits)) # 0

\* the number of binary digits of a
BigLen(a) ==
    IF a = << >> THEN 0
    ELSE LimbBits * (Len(a) - 1)
         + CHOOSE n \in 1..LimbBits : 2^(n - 1) <= a[Len(a)] /\ a[Len(a)] < 2^n

\* a * b, for a and b of at most four digits
BigProduct(a, b) ==
    LET A(i) == IF i >= 1 /\ i <= Len(a) THEN a[i] ELSE 0
        B(i) == IF i >= 1 /\ i <= Len(b) THEN b[i] ELSE 0
    IN  BigCarry([k \in 1..(Len(a) + Len(b)) |->
                     A(1) * B(k) + A(2) * B(k - 1) + A(3) * B(k - 2) + A(4) * B(k - 3)],
                 [carry |-> 0, digits |-> << >>])

\* n more digits of the quotient of a long division by den (of
\* DoubleMantissa binary digits): q holds the remainder so far (below den)
\* and the digits so far, the least significant first; each digit is
\* estimated from the leading 30 binary digits of the remainder times Limb
\* and the leading 16 of den, which is at most one off
RECURSIVE BigQuotient(_, _, _)
BigQuotient(q, den, n) ==
    IF n = 0 THEN q
    ELSE LET r        == IF q.rem = << >> THEN << >> ELSE <<0>> \o q.rem
             Small(x) == LET y == x \o <<0, 0, 0>>
                         IN  y[1] + Limb * y[2] + Limb * Limb * y[3]
             dhat     == Small(BigShr(r, DoubleMantissa - 16))
                             \div Small(BigShr(den, DoubleMantissa - 16))
             d        == CHOOSE d \in {dhat - 1, dhat, dhat + 1} :
                             /\ d >= 0
                             /\ BigGeq(r, BigProduct(<<d>>, den))
                             /\ ~BigGeq(r, BigProduct(<<d + 1>>, den))
         IN  BigQuotient([rem    |-> BigSum(r, BigProduct(<<d>>, den), -1),
                          digits |-> <<d>> \o q.digits], den, n - 1)

\* A double is [sign, m, l], of value sign * m * 2^l: sign is 1 or -1 and m a
\* natural number of exactly DoubleMantissa binary digits; zero has m = << >>.
DblZero == [sign |-> 1, m |-> << >>, l |-> 0]

\* the double nearest to sign * (n + t) * 2^l, ties to even, where 0 < t < 1
\* when sticky and t = 0 otherwise
DblRound(sign, n, l, sticky) ==
    LET s    == BigLen(n) - DoubleMantissa
        kept == BigShr(n, s)
        up   == /\ BigLow(BigShr(n, s - 1), 1)
                /\ sticky \/ BigLow(n, s - 1) \/ BigLow(kept, 1)
        m    == IF up THEN BigSum(kept, <<1>>, 1) ELSE kept
    IN  IF n = << >> THEN DblZero
        ELSE IF s <= 0 THEN [sign |-> sign, m |-> BigShl(n, -s), l |-> l + s]
        ELSE IF BigLen(m) > DoubleMantissa
        THEN [sign |-> sign, m |-> BigShr(m, 1), l |-> l + s + 1]
        ELSE [sign |-> sign, m |-> m, l |-> l + s]

\* static_cast<double>(n) for an int n
DblOfInt(n) ==
    LET a == IF n < 0 THEN -n ELSE n
    IN  DblRound(IF n < 0 THEN -1 ELSE 1,
                 BigTrim(<<a % Limb, (a \div Limb) % Limb, a \div (Limb * Limb)>>), 0, FALSE)

\* x / y, y not zero
DblDiv(x, y) ==
    IF x.m = << >> THEN DblZero
    ELSE LET ge == BigGeq(x.m, y.m)
             q  == BigQuotient([rem    |-> IF ge THEN BigSum(x.m, y.m, -1) ELSE x.m,
                                digits |-> IF ge THEN <<1>> ELSE <<0>>], y.m, 4)
         IN  DblRound(x.sign * y.sign, BigTrim(q.digits), x.l - y.l - 4 * LimbBits,
                      q.rem # << >>)

\* x * y
DblMul(x, y) ==
    IF x.m = << >> \/ y.m = << >> THEN DblZero
    ELSE DblRound(x.sign * y.sign, BigProduct(x.m, y.m), x.l + y.l, FALSE)

\* x + y
DblAdd(x, y) ==
    IF x.m = << >> THEN y
    ELSE IF y.m = << >> THEN x
    ELSE LET l == IF x.l < y.l THEN x.l ELSE y.l
             a == BigShl(x.m, x.l - l)
             b == BigShl(y.m, y.l - l)
         IN  IF x.sign = y.sign THEN DblRound(x.sign, BigSum(a, b, 1), l, FALSE)
             ELSE IF BigGeq(a, b) THEN DblRound(x.sign, BigSum(a, b, -1), l, FALSE)
             ELSE DblRound(y.sign, BigSum(b, a, -1), l, FALSE)

\* std::floor(x) for 0 <= x < Limb^2, as an int
DblFloor(x) ==
    LET n == (IF x.l >= 0 THEN BigShl(x.m, x.l) ELSE BigShr(x.m, -x.l)) \o <<0, 0>>
    IN  n[1] + Limb * n[2]

\* static_cast<int>(x): toward zero
DblToInt(x) == x.sign * DblFloor(x)

\* static_cast<int>(std::ceil(x)) for x >= 0
DblCeil(x) == DblFloor(x) + (IF x.l < 0 /\ BigLow(x.m, -x.l) THEN 1 ELSE 0)

\* interpolateLinear, lines 201-220 (index is never negative or NaN here)
interpolateLinear(data, index) ==
    IF data = << >> THEN DblZero
    ELSE IF index.m = << >> \/ index.sign < 0 THEN DblOfInt(data[1])
    ELSE IF DblFloor(index) >= Len(data) - 1 THEN DblOfInt(data[Len(data)])
    ELSE LET i0   == DblFloor(index)
             frac == DblAdd(index, DblOfInt(-i0))
         IN  DblAdd(DblMul(DblOfInt(data[i0 + 1]),
                           DblAdd(DblOfInt(1), [frac EXCEPT !.sign = -1])),
                    DblMul(DblOfInt(data[i0 + 2]), frac))

\* resampleData, lines 180-181:
\*     double ratio = outputRate / inputRate;
\*     int outputSamples = static_cast<int>(std::ceil(inputSamples * ratio));
outputSamples(inputSamples, inputRate, outputRate) ==
    DblCeil(DblMul(DblOfInt(inputSamples), DblDiv(DblOfInt(outputRate), DblOfInt(inputRate))))

\* resampleData, lines 183-196: the input index i / ratio of each of the
\* outputSamples outputs i = 0, 1, ...
inputIndex(inputSamples, inputRate, outputRate) ==
    IF inputSamples = 0 THEN << >>
    ELSE LET ratio == DblDiv(DblOfInt(outputRate), DblOfInt(inputRate))
         IN  [i \in 1..outputSamples(inputSamples, inputRate, outputRate) |->
                 DblDiv(DblOfInt(i - 1), ratio)]

\* resampleData for one channel (the data values are whole numbers in the
\* model): output i is interpolated at its input index
resampleData(data, inputRate, outputRate) ==
    LET index == inputIndex(Len(data), inputRate, outputRate)
    IN  [i \in 1..Len(index) |-> interpolateLinear(data, index[i])]

(***************************************************************************)
(* ComtradeReplayTest::loadComtradeFile                                    *)
(***************************************************************************)
\* position of the first mapping the loop rejects (0: none), lines 102-120
FirstBadMapping(f, mapping) ==
    LET bad == {m \in 1..Len(mapping) :
                   \/ mapping[m][2] < 0 \/ mapping[m][2] >= NumSvChannels
                   \/ getAnalogChannel(f, mapping[m][1]) = 0}
    IN  IF bad = {} THEN 0 ELSE CHOOSE m \in bad : \A j \in bad : m <= j

\* analogData[k] after the mapping loop (k = 0..7): zeros unless mapped; a later
\* mapping of the same SV channel overwrites an earlier one.  The test before
\* the read has no lower limit: a negative index reads in front of the
\* vector's storage
AnalogData(f, mapping, k) ==
    LET ms == {m \in 1..Len(mapping) : mapping[m][2] = k}
    IN  IF ms = {} THEN [i \in 1..Len(f.samples) |-> 0]
        ELSE LET m  == CHOOSE x \in ms : \A j \in ms : j <= x
                 ch == f.channels[getAnalogChannel(f, mapping[m][1])]
             IN  [i \in 1..Len(f.samples) |->
                     IF ch.index < Len(f.samples[i])
                     THEN IF ch.index >= 0 THEN f.samples[i][ch.index + 1] ELSE f.stray
                     ELSE 0]

\* the outcome of loadComtradeFile for configuration c:
\* err is "" on success, else the lastError_ it stores
loadComtradeFile(c) ==
    LET f   == ParserLoad(c.cfgFilePath)
        bad == FirstBadMapping(f, c.channelMapping)
    IN  IF ~f.loads THEN [err |-> "Failed to load COMTRADE file", statsSet |-> FALSE]
        ELSE IF Len(f.samples) = 0
        THEN [err |-> "COMTRADE file contains no samples", statsSet |-> FALSE]
        ELSE IF bad # 0
        THEN [err |-> IF \/ c.channelMapping[bad][2] < 0
                         \/ c.channelMapping[bad][2] >= NumSvChannels
                      THEN "Invalid SV channel index"
                      ELSE "COMTRADE channel not found",
              statsSet |-> TRUE]
        ELSE [err |-> "", statsSet |-> TRUE]

\* resampledData_ (channels 0..7) stored by a successful loadComtradeFile,
\* lines 130-155: every channel is resampled when the rates differ by more
\* than 0.1, then every value is converted to int32_t.  All channels have the
\* length of the recording, so the input index of output i is the same
\* double for every channel.
ResampledDataOf(c) ==
    LET f     == ParserLoad(c.cfgFilePath)
        index == inputIndex(Len(f.samples), f.rate, c.sampleRate)
    IN  [k \in 0..(NumSvChannels - 1) |->
            IF Abs(f.rate - c.sampleRate) * 10 > 1
            THEN [i \in 1..Len(index) |->
                     DblToInt(interpolateLinear(AnalogData(f, c.channelMapping, k), index[i]))]
            ELSE AnalogData(f, c.channelMapping, k)]

(***************************************************************************)
(* decodeGoose (goose_decoder.h); packet offsets are 0-based as in the code *)
(***************************************************************************)
\* packet[off]; the code reads no byte outside the packet (C39), and a read
\* outside it, which only a changed decoder makes, yields 0 here
At(p, off) == IF off + 1 \in DOMAIN p THEN p[off + 1] ELSE 0

U32At(p, off) ==
    At(p, off) * 16777216 + At(p, off + 1) * 65536 + At(p, off + 2) * 256 + At(p, off + 3)

EmptyGooseMessage ==
    [appID |-> 0, gocbRef |-> << >>, timeAllowedToLive |-> 0, datSet |-> << >>,
     stNum |-> 0, sqNum |-> 0, valid |-> FALSE]

\* FieldLength taking the octet after 0x81 without looking where the packet ends
FieldLengthUnchecked(p, off) ==
    IF At(p, off) >= 128
    THEN LET n == At(p, off) % 128
         IN  IF n = 1
             THEN [len |-> At(p, off + 1), next |-> off + 2]
             ELSE IF n = 2 /\ off + 2 < Len(p)
             THEN [len |-> At(p, off + 1) * 256 + At(p, off + 2), next |-> off + 3]
             ELSE [len |-> 0, next |-> off + 1]
    ELSE [len |-> At(p, off), next |-> off + 1]

\* a BER length read at offset off where At(p, off) exists:
\* [len, next] = the length and the offset after the length octets.
\* A long form announcing 1 (2) octets that are not inside the packet, or any
\* other number of octets, leaves the length 0 and consumes only the first octet.
FieldLength(p, off) ==
    IF At(p, off) >= 128
    THEN LET n == At(p, off) % 128
         IN  IF n = 1 /\ off + 1 < Len(p)
             THEN [len |-> At(p, off + 1), next |-> off + 2]
             ELSE IF n = 2 /\ off + 2 < Len(p)
             THEN [len |-> At(p, off + 1) * 256 + At(p, off + 2), next |-> off + 3]
             ELSE [len |-> 0, next |-> off + 1]
    ELSE [len |-> At(p, off), next |-> off + 1]

\* the switch on the tag, lines 126-157
StoreField(msg, p, tag, off, len) ==
    CASE tag = 128 -> [msg EXCEPT !.gocbRef = SubSeq(p, off + 1, off + len)]
      [] tag = 129 /\ len = 4 -> [msg EXCEPT !.timeAllowedToLive = U32At(p, off)]
      [] tag = 130 -> [msg EXCEPT !.datSet = SubSeq(p, off + 1, off + len)]
      [] tag = 133 /\ len = 4 -> [msg EXCEPT !.stNum = U32At(p, off)]
      [] tag = 134 /\ len = 4 -> [msg EXCEPT !.sqNum = U32At(p, off)]
      [] OTHER -> msg

\* the while loop of lines 104-160
RECURSIVE TlvLoop(_, _, _, _)
TlvLoop(p, offset, pduEnd, msg) ==
    IF ~(offset < pduEnd /\ offset < Len(p)) THEN msg
    ELSE LET tag == At(p, offset)
         IN  IF offset + 1 >= Len(p) THEN msg
             ELSE LET fl == FieldLength(p, offset + 1)
                  IN  IF fl.next + fl.len > Len(p) THEN msg
                      ELSE TlvLoop(p, fl.next + fl.len, pduEnd,
                                   StoreField(msg, p, tag, fl.next, fl.len))

\* the while loop of lines 104-160 once more, for what it reads: st.offset
\* is the loop's offset, st.starts the offsets at which its iterations began,
\* st.reads the offsets of the bytes read so far, st.breaks whether the loop
\* was left by one of its two breaks (no length octet after the tag, or a
\* field running past the packet)
RECURSIVE TlvTrace(_, _, _)
TlvTrace(p, pduEnd, st) ==
    IF ~(st.offset < pduEnd /\ st.offset < Len(p)) THEN st
    ELSE LET Field(tag, fl, t) ==
                 IF fl.next + fl.len > Len(p) THEN [t EXCEPT !.breaks = TRUE]
                 ELSE TlvTrace(p, pduEnd,
                          [t EXCEPT !.offset = fl.next + fl.len,
                                    !.reads = @ \cup
                                        (IF \/ tag \in {128, 130}
                                            \/ tag \in {129, 133, 134} /\ fl.len = 4
                                         THEN fl.next..(fl.next + fl.len - 1) ELSE {})])
             Length(fl, t) ==
                 Field(At(p, st.offset), fl,
                       [t EXCEPT !.reads = @ \cup ((st.offset + 1)..(fl.next - 1))])
             Tag(t) ==
                 IF st.offset + 1 >= Len(p) THEN [t EXCEPT !.breaks = TRUE]
                 ELSE Length(FieldLength(p, st.offset + 1), t)
         IN  Tag([st EXCEPT !.starts = Append(@, st.offset),
                            !.reads = @ \cup {st.offset}])

\* the PDU length of lines 80-99: [ok, len, next]
PduLength(p, off) ==
    IF At(p, off) >= 128
    THEN LET n == At(p, off) % 128
         IN  IF n = 1
             THEN IF off + 1 >= Len(p) THEN [ok |-> FALSE, len |-> 0, next |-> off + 1]
                  ELSE [ok |-> TRUE, len |-> At(p, off + 1), next |-> off + 2]
             ELSE IF n = 2
             THEN IF off + 2 >= Len(p) THEN [ok |-> FALSE, len |-> 0, next |-> off + 1]
                  ELSE [ok |-> TRUE, len |-> At(p, off + 1) * 256 + At(p, off + 2),
                        next |-> off + 3]
             ELSE [ok |-> TRUE, len |-> 0, next |-> off + 1]
    ELSE [ok |-> TRUE, len |-> At(p, off), next |-> off + 1]

decodeGoose(p) ==
    IF Len(p) < 28 THEN EmptyGooseMessage
    ELSE LET et == IF At(p, 12) = 129 /\ At(p, 13) = 0 THEN 16 ELSE 12
         IN  IF At(p, et) # 136 \/ At(p, et + 1) # 184 THEN EmptyGooseMessage
             ELSE LET m0  == [EmptyGooseMessage EXCEPT
                                 !.appID = At(p, et + 2) * 256 + At(p, et + 3)]
                      pdu == et + 10
                  IN  IF pdu >= Len(p) \/ At(p, pdu) # 97 THEN m0
                      ELSE IF pdu + 1 >= Len(p) THEN m0
                      ELSE LET pl == PduLength(p, pdu + 1)
                           IN  IF ~pl.ok THEN m0
                               ELSE LET m == TlvLoop(p, pl.next, pl.next + pl.len, m0)
                                    IN  [m EXCEPT !.valid = (Len(m.gocbRef) # 0)]

\* decodeGoose once more, for what it reads: the offsets of the bytes read
\* before the TLV loop, then TlvTrace; pduEnd is 0 when the loop is not reached
DecodeTrace(p) ==
    LET Read(reads) == [offset |-> 0, starts |-> << >>, reads |-> reads,
                        breaks |-> FALSE, pduEnd |-> 0]
        Pdu(pl, reads) ==
            IF ~pl.ok THEN Read(reads)
            ELSE TlvTrace(p, pl.next + pl.len,
                          [Read(reads) EXCEPT !.offset = pl.next,
                                              !.pduEnd = pl.next + pl.len])
        Header(et) ==
            IF At(p, et) # 136 \/ At(p, et + 1) # 184 THEN Read({12, 13, et, et + 1})
            ELSE IF et + 10 >= Len(p) THEN Read({12, 13} \cup (et..(et + 3)))
            ELSE IF At(p, et + 10) # 97 \/ et + 11 >= Len(p)
            THEN Read({12, 13, et + 10} \cup (et..(et + 3)))
            ELSE Pdu(PduLength(p, et + 11),
                     {12, 13, et + 10} \cup (et..(et + 3))
                     \cup ((et + 11)..(PduLength(p, et + 11).next - 1)))
    IN  IF Len(p) < 28 THEN Read({})
        ELSE Header(IF At(p, 12) = 129 /\ At(p, 13) = 0 THEN 16 ELSE 12)

\* std::string::find(sub) != npos
Contains(s, sub) ==
    \E i \in 0..(Len(s) - Len(sub)) : SubSeq(s, i + 1, i + Len(sub)) = sub

(***************************************************************************)
(* Frames the listener's socket may deliver                                *)
(***************************************************************************)
GocbStop == <<73, 69, 68, 47, 83, 84, 79, 80>>         \* "IED/STOP"

\* what socket.receive() may return in one poll: nothing (<< >>), or an
\* Ethernet frame made of the MACs, an optional 802.1Q tag, the EtherType,
\* APPID 0x0001, length, reserved1, reserved2 and a PDU
WireFrames ==
    LET GocbTrip == <<73, 69, 68, 47, 84, 82, 73, 80>>      \* "IED/TRIP"
        GocbCut  == <<67, 85, 84, 47, 83, 84, 79, 80>>      \* "CUT/STOP"
        \* a GOOSE PDU (tag 0x61) with gocbRef, stNum and sqNum
        GoosePdu(ref, stNum, sqNum) ==
            <<97, Len(ref) + 14, 128, Len(ref)>> \o ref
            \o <<133, 4, 0, 0, 0, stNum>> \o <<134, 4, 0, 0, 0, sqNum>>
        \* a PDU cut inside its stNum field, after a complete gocbRef
        GoosePduCut(ref) ==
            <<97, Len(ref) + 8, 128, Len(ref)>> \o ref \o <<133, 4, 0, 0>>
        WireFrame(tagged, et1, et2, pdu) ==
            <<1, 12, 205, 1, 0, 1>> \o <<0, 17, 34, 51, 68, 85>>
            \o (IF tagged THEN <<129, 0, 128, 4>> ELSE << >>)
            \o <<et1, et2>> \o <<0, 1>> \o <<0, 8 + Len(pdu)>> \o <<0, 0, 0, 0>> \o pdu
    IN  {<< >>,
         \* a stop message, untagged and tagged
         WireFrame(FALSE, 136, 184, GoosePdu(GocbStop, 1, 0)),
         WireFrame(TRUE, 136, 184, GoosePdu(GocbStop, 1, 0)),
         \* another control block's message
         WireFrame(FALSE, 136, 184, GoosePdu(GocbTrip, 2, 1)),
         \* a tagged Sampled Values frame (EtherType 0x88BA)
         WireFrame(TRUE, 136, 186, GoosePdu(GocbStop, 1, 0)),
         \* a GOOSE frame that ends inside its stNum field
         WireFrame(FALSE, 136, 184, GoosePduCut(GocbCut)),
         \* the stop message's PDU under tag 0x60 instead of 0x61
         WireFrame(FALSE, 136, 184, <<96>> \o Tail(GoosePdu(GocbStop, 1, 0)))}

\* decodeGoose applied to each of them
Decoded == [f \in WireFrames |-> decodeGoose(f)]

(***************************************************************************)
(* Configurations (PhasorInjectionConfig / ComtradeReplayConfig)           *)
(***************************************************************************)
MacSrcStr  == <<"A","A",":","B","B",":","C","C",":","D","D",":","E","E",":","F","F">>
MacZeroStr == <<"0","0",":","0","0",":","0","0",":","0","0",":","0","0",":","0","0">>

\* {magnitude, angle in degrees} for IA, IB, IC, IN, VA, VB, VC, VN
ModelPhasors ==
    [k \in 0..(NumSvChannels - 1) |->
        CASE k = 0 -> <<100, 0>> [] k = 1 -> <<100, -120>> [] k = 2 -> <<100, 120>>
          [] k = 4 -> <<695, 0>> [] k = 5 -> <<695, -120>> [] k = 6 -> <<695, 120>>
          [] OTHER -> <<0, 0>>]

\* "TestSV01", the svId of a default PhasorInjectionConfig, as bytes.  (The
\* default of ComtradeReplayConfig is "ComtradeReplay"; it is never sent,
\* because run() refuses an object that was not configured.)
SvIdTest == <<84, 101, 115, 116, 83, 86, 48, 49>>

\* the members a default-constructed configuration holds (struct initializers)
DefaultConfig ==
    [iface |-> "en0", dstMac |-> <<"0","1",":","0","C",":","C","D",":","0","1",":","0","0",":","0","0">>, srcMac |-> << >>,
     vlanId |-> 4, vlanPriority |-> 4, appId |-> 16384, svId |-> SvIdTest,
     sampleRate |-> 4800,
     cfgFilePath |-> "", channelMapping |-> << >>,
     stopGooseRef |-> <<83, 84, 79, 80>> (* "STOP" *), enableGooseMonitoring |-> TRUE,
     loopPlayback |-> FALSE, phasors |-> ModelPhasors,
     verboseOutput |-> TRUE, progressInterval |-> 1000]

\* a configuration every check accepts
BaseConfig ==
    [DefaultConfig EXCEPT !.iface = "eth0", !.srcMac = MacSrcStr, !.sampleRate = 2,
                          !.cfgFilePath = "a.cfg",
                          !.channelMapping = << <<"IA", 0>>, <<"VA", 4>> >>]

\* configurations a caller may hand to configure(): the base one and its
\* one-field variations
CommonConfigs ==
    { BaseConfig,
      [BaseConfig EXCEPT !.enableGooseMonitoring = FALSE],
      [BaseConfig EXCEPT !.sampleRate = 8],
      [BaseConfig EXCEPT !.sampleRate = 0],
      [BaseConfig EXCEPT !.iface = ""],
      [BaseConfig EXCEPT !.srcMac = << >>],
      \* separators of the SCD notation instead of colons
      [BaseConfig EXCEPT !.dstMac = <<"0","1","-","0","C","-","C","D","-",
                                      "0","1","-","0","0","-","0","0">>],
      [BaseConfig EXCEPT !.vlanId = 4095],
      [BaseConfig EXCEPT !.vlanId = 4096],
      [BaseConfig EXCEPT !.vlanPriority = 8] }

ComtradeOnlyConfigs ==
    { [BaseConfig EXCEPT !.loopPlayback = TRUE],
      [BaseConfig EXCEPT !.cfgFilePath = ""],
      [BaseConfig EXCEPT !.cfgFilePath = "missing.cfg"],
      [BaseConfig EXCEPT !.cfgFilePath = "empty.cfg"],
      [BaseConfig EXCEPT !.channelMapping = << <<"IA", 0>>, <<"IX", 1>> >>],
      [BaseConfig EXCEPT !.channelMapping = << <<"IA", 8>> >>] }

\* configurations every check accepts
RunConfigs(m) ==
    { BaseConfig, [BaseConfig EXCEPT !.enableGooseMonitoring = FALSE] }
    \cup (IF m = "comtrade" THEN { [BaseConfig EXCEPT !.loopPlayback = TRUE] } ELSE {})

ConfigsOf(m) ==
    IF m = "comtrade" THEN CommonConfigs \cup ComtradeOnlyConfigs ELSE CommonConfigs

\* monitoring off, every combination of verboseOutput with a progress interval
ProgressConfigs ==
    { [BaseConfig EXCEPT !.enableGooseMonitoring = FALSE, !.verboseOutput = v,
                         !.progressInterval = n] :
          v \in BOOLEAN, n \in 0..(MaxFrames - 1) }

\* the recordings of RampFiles replayed at every output rate up to
\* MaxOutputRate, and two-sample recordings under several channel mappings
ResampleConfigs ==
    { [BaseConfig EXCEPT !.cfgFilePath = path, !.sampleRate = rate] :
          path \in DOMAIN RampFiles, rate \in 1..MaxOutputRate }
    \cup { [BaseConfig EXCEPT !.cfgFilePath = "flat.cfg", !.sampleRate = rate] :
               rate \in {MaxOutputRate - 3, MaxOutputRate + 1} }
    \cup { [BaseConfig EXCEPT !.cfgFilePath = path] : path \in {"zero.cfg", "zero2.cfg"} }
    \cup { [BaseConfig EXCEPT !.cfgFilePath = path, !.sampleRate = rate,
                              !.channelMapping = mapping] :
               path \in {"a.cfg", "gap.cfg"}, rate \in {2, MaxOutputRate},
               mapping \in { << >>,
                             << <<"IA", 0>>, <<"VA", 4>> >>,
                             << <<"VA", 0>>, <<"IA", 7>> >>,
                             << <<"IA", 3>>, <<"IA", 5>> >>,
                             << <<"IA", 0>>, <<"IX", 1>> >>,
                             << <<"IA", 8>> >>,
                             << <<"VA", -1>> >> } }

(***************************************************************************)
(* comtrade_parser.cpp: the reader of .cfg and .dat files                  *)
(*                                                                         *)
(* A text line is the sequence of its comma-separated fields and a field   *)
(* is a sequence of characters.  A double is held in tenths (0.5 is 5,     *)
(* 22000.0 is 220000); the files of the model carry at most one decimal    *)
(* and are chosen so that every product and quotient is exact in tenths.   *)
(***************************************************************************)
IsDigit(ch) == ch \in {"0", "1", "2", "3", "4", "5", "6", "7", "8", "9"}
DigitVal(ch) ==
    LET DecDigits == <<"0", "1", "2", "3", "4", "5", "6", "7", "8", "9">>
    IN  (CHOOSE i \in 1..10 : DecDigits[i] = ch) - 1
\* std::isspace and std::isalpha on the characters the files of the model use
IsSpace(ch) == ch \in {" ", "\t", "\r"}
IsAlpha(ch) == ch \in {"A", "B", "C", "D", "I", "N", "P", "R", "S", "V", "Y",
                       "a", "c", "i", "s", "x"}

\* ComtradeParser::trim
RECURSIVE TrimLeft(_)
TrimLeft(s) == IF s # << >> /\ IsSpace(Head(s)) THEN TrimLeft(Tail(s)) ELSE s
RECURSIVE TrimRight(_)
TrimRight(s) ==
    IF s # << >> /\ IsSpace(s[Len(s)]) THEN TrimRight(SubSeq(s, 1, Len(s) - 1)) ELSE s
trim(s) == TrimRight(TrimLeft(s))

\* ComtradeParser::splitLine: std::getline(ss, token, ',') yields no token
\* for the empty text after a final comma
splitLine(line) ==
    LET n == IF line # << >> /\ line[Len(line)] = << >> THEN Len(line) - 1
             ELSE Len(line)
    IN  [i \in 1..n |-> trim(line[i])]

\* the text of a whole line, its commas put back
RECURSIVE LineText(_)
LineText(line) ==
    IF line = << >> THEN << >>
    ELSE IF Len(line) = 1 THEN line[1]
    ELSE line[1] \o <<",">> \o LineText(Tail(line))

\* the number of decimal digits at the head of s, and their value
RECURSIVE DigitCount(_)
DigitCount(s) == IF s # << >> /\ IsDigit(Head(s)) THEN 1 + DigitCount(Tail(s)) ELSE 0
RECURSIVE DigitsValue(_, _)
DigitsValue(s, acc) ==
    IF s # << >> /\ IsDigit(Head(s)) THEN DigitsValue(Tail(s), 10 * acc + DigitVal(Head(s)))
    ELSE acc

\* std::stoi: optional blanks and sign, then the longest run of digits; what
\* follows the digits is ignored; no digit at all throws (ok = FALSE)
stoi(s) ==
    LET Unsigned(t) == IF t # << >> /\ Head(t) \in {"-", "+"} THEN Tail(t) ELSE t
        Number(neg, body) ==
            [ok  |-> DigitCount(body) > 0,
             val |-> IF neg THEN 0 - DigitsValue(body, 0) ELSE DigitsValue(body, 0)]
        Signed(t) == Number(t # << >> /\ Head(t) = "-", Unsigned(t))
    IN  Signed(TrimLeft(s))

\* std::stod on decimal text, in tenths: digits, optionally a point and digits
stod(s) ==
    LET Unsigned(t) == IF t # << >> /\ Head(t) \in {"-", "+"} THEN Tail(t) ELSE t
        Fraction(rest) == IF rest # << >> /\ Head(rest) = "." THEN Tail(rest) ELSE << >>
        Magnitude(body, frac) ==
            10 * DigitsValue(body, 0)
            + (IF DigitCount(frac) > 0 THEN DigitVal(Head(frac)) ELSE 0)
        Number(neg, body, frac) ==
            [ok  |-> DigitCount(body) + DigitCount(frac) > 0,
             val |-> IF neg THEN 0 - Magnitude(body, frac) ELSE Magnitude(body, frac)]
        Digits(neg, body) ==
            Number(neg, body, Fraction(SubSeq(body, DigitCount(body) + 1, Len(body))))
        Signed(t) == Digits(t # << >> /\ Head(t) = "-", Unsigned(t))
    IN  Signed(TrimLeft(s))

\* ComtradeConfig(): value-initialised, DataFormat::ASCII is enumerator 0
DefaultComtradeConfig ==
    [stationName |-> << >>, recDeviceId |-> << >>, revisionYear |-> 0,
     totalChannels |-> 0, numAnalogChannels |-> 0, numDigitalChannels |-> 0,
     analogChannels |-> << >>, digitalChannels |-> << >>, lineFreq |-> 0,
     numSampleRates |-> 0, sampleRates |-> << >>, startDate |-> << >>,
     startTime |-> << >>, dataFormat |-> "ASCII", timeFactor |-> 0,
     totalSamples |-> 0]

\* the outcome of a parsing function: its return value, the configuration it
\* leaves in config_ and the message given to setError (head and line number)
CfgOk(c) == [ok |-> TRUE, config |-> c, err |-> << >>]
CfgFail(c, msg) == [ok |-> FALSE, config |-> c, err |-> <<msg>>]
\* the catch clause of parseCfg
CfgCaught(c, lineNum) ==
    [ok |-> FALSE, config |-> c, err |-> <<"Error parsing .cfg file at line", lineNum>>]

\* ComtradeParser::parseAnalogChannelLine: [ok, channel]
parseAnalogChannelLine(line) ==
    LET tokens == splitLine(line)
    IN  IF Len(tokens) < 13 THEN [ok |-> FALSE]
        ELSE IF \/ ~stoi(tokens[1]).ok
                \/ \E k \in 6..12 : ~stod(tokens[k]).ok
             THEN [ok |-> FALSE]
        ELSE [ok |-> TRUE,
              channel |->
                [index |-> stoi(tokens[1]).val - 1, name |-> tokens[2],
                 phase |-> tokens[3], units |-> tokens[5],
                 a |-> stod(tokens[6]).val, b |-> stod(tokens[7]).val,
                 skew |-> stod(tokens[8]).val, min |-> stod(tokens[9]).val,
                 max |-> stod(tokens[10]).val, primary |-> stod(tokens[11]).val,
                 secondary |-> stod(tokens[12]).val,
                 ps |-> IF tokens[13] # << >> THEN tokens[13][1] ELSE "P"]]

\* ComtradeParser::parseDigitalChannelLine: [ok, channel]
parseDigitalChannelLine(line) ==
    LET tokens == splitLine(line)
    IN  IF Len(tokens) < 5 THEN [ok |-> FALSE]
        ELSE IF ~stoi(tokens[1]).ok \/ ~stoi(tokens[5]).ok THEN [ok |-> FALSE]
        ELSE [ok |-> TRUE,
              channel |-> [index |-> stoi(tokens[1]).val - 1, name |-> tokens[2],
                           normalState |-> stoi(tokens[5]).val]]

\* parseCfg from the start date to the time factor; n lines have been read
CfgTail(f, c, n) ==
    IF Len(f) < n + 1 THEN CfgFail(c, "Missing start date")
    ELSE
    LET tokens == splitLine(f[n + 1])
        c1 == IF Len(tokens) >= 2
              THEN [c EXCEPT !.startDate = tokens[1], !.startTime = tokens[2]]
              ELSE c
        \* the trigger line is skipped when there is one
        m  == IF Len(f) >= n + 2 THEN n + 2 ELSE n + 1
    IN  IF Len(f) < m + 1 THEN CfgFail(c1, "Missing data file type")
        ELSE
        LET formatStr == trim(LineText(f[m + 1]))
            known == formatStr \in {<<"A", "S", "C", "I", "I">>,
                                    <<"B", "I", "N", "A", "R", "Y">>,
                                    <<"B", "I", "N", "A", "R", "Y", "3", "2">>}
            c2 == [c1 EXCEPT !.dataFormat =
                      IF Len(formatStr) = 5 THEN "ASCII"
                      ELSE IF Len(formatStr) = 6 THEN "BINARY" ELSE "BINARY32"]
        IN  IF ~known THEN CfgFail(c1, "Unknown data format")
            ELSE IF Len(f) < m + 2 THEN CfgOk([c2 EXCEPT !.timeFactor = 10])
            ELSE LET trimmed == trim(LineText(f[m + 2]))
                 IN  IF trimmed = << >> THEN CfgOk([c2 EXCEPT !.timeFactor = 10])
                     ELSE IF ~stod(trimmed).ok THEN CfgCaught(c2, m + 1)
                     ELSE CfgOk([c2 EXCEPT !.timeFactor = stod(trimmed).val])

\* the loop over the sample rate entries, i of them done
RECURSIVE CfgRates(_, _, _, _)
CfgRates(f, c, n, i) ==
    IF i >= c.numSampleRates THEN CfgTail(f, c, n)
    ELSE IF Len(f) < n + 1 THEN CfgFail(c, "Missing sample rate entry")
    ELSE LET tokens == splitLine(f[n + 1])
         IN  IF Len(tokens) < 2 THEN CfgRates(f, c, n + 1, i + 1)
             ELSE IF ~stod(tokens[1]).ok \/ ~stoi(tokens[2]).ok
                  THEN CfgCaught(c, n + 1)
             ELSE CfgRates(f,
                           [c EXCEPT !.sampleRates =
                               Append(@, [rate |-> stod(tokens[1]).val,
                                          endSample |-> stoi(tokens[2]).val])],
                           n + 1, i + 1)

\* line frequency and number of sample rates
CfgFreq(f, c, n) ==
    IF Len(f) < n + 1 THEN CfgFail(c, "Missing line frequency")
    ELSE IF ~stod(trim(LineText(f[n + 1]))).ok THEN CfgCaught(c, n + 1)
    ELSE
    LET c1 == [c EXCEPT !.lineFreq = stod(trim(LineText(f[n + 1]))).val]
    IN  IF Len(f) < n + 2 THEN CfgFail(c1, "Missing sample rate line")
        ELSE IF ~stoi(trim(LineText(f[n + 2]))).ok THEN CfgCaught(c1, n + 2)
        ELSE
        LET c2 == [c1 EXCEPT !.numSampleRates = stoi(trim(LineText(f[n + 2]))).val]
        IN  \* reserve() of a negative count throws std::length_error
            IF c2.numSampleRates < 0 THEN CfgCaught(c2, n + 2)
            ELSE CfgRates(f, c2, n + 2, 0)

\* the loop over the digital channel lines
RECURSIVE CfgDigital(_, _, _, _)
CfgDigital(f, c, n, i) ==
    IF i >= c.numDigitalChannels THEN CfgFreq(f, c, n)
    ELSE IF Len(f) < n + 1 THEN CfgFail(c, "Missing digital channel line")
    ELSE IF ~parseDigitalChannelLine(f[n + 1]).ok
         THEN CfgFail(c, "Invalid digital channel line")
    ELSE CfgDigital(f,
                    [c EXCEPT !.digitalChannels =
                        Append(@, parseDigitalChannelLine(f[n + 1]).channel)],
                    n + 1, i + 1)

\* the loop over the analog channel lines
RECURSIVE CfgAnalog(_, _, _, _)
CfgAnalog(f, c, n, i) ==
    IF i >= c.numAnalogChannels
    THEN \* reserve() of a negative count throws std::length_error
         IF c.numDigitalChannels < 0 THEN CfgCaught(c, n)
         ELSE CfgDigital(f, c, n, 0)
    ELSE IF Len(f) < n + 1 THEN CfgFail(c, "Missing analog channel line")
    ELSE IF ~parseAnalogChannelLine(f[n + 1]).ok
         THEN CfgFail(c, "Invalid analog channel line")
    ELSE CfgAnalog(f,
                   [c EXCEPT !.analogChannels =
                       Append(@, parseAnalogChannelLine(f[n + 1]).channel)],
                   n + 1, i + 1)

\* lines 1 and 2
CfgHead(f, c) ==
    IF Len(f) < 1 THEN CfgFail(c, "Empty .cfg file")
    ELSE
    LET t1 == splitLine(f[1])
        \* "16A" or "16": a final letter is dropped.  back() of an empty string
        \* reads outside the text; whatever it reads, the text stays empty
        StripAlpha(s) ==
            IF s # << >> /\ IsAlpha(s[Len(s)]) THEN SubSeq(s, 1, Len(s) - 1) ELSE s
    IN  IF Len(t1) < 2 THEN CfgFail(c, "Invalid line 1 format")
        ELSE
        LET c1 == [c EXCEPT !.stationName = t1[1], !.recDeviceId = t1[2]]
        IN  IF Len(t1) >= 3 /\ ~stoi(t1[3]).ok THEN CfgCaught(c1, 1)
            ELSE
            LET c2 == [c1 EXCEPT !.revisionYear =
                          IF Len(t1) >= 3 THEN stoi(t1[3]).val ELSE 1991]
            IN  IF Len(f) < 2 THEN CfgFail(c2, "Missing line 2")
                ELSE
                LET t2 == splitLine(f[2])
                IN  IF Len(t2) < 3 THEN CfgFail(c2, "Invalid line 2 format")
                    ELSE IF ~stoi(t2[1]).ok THEN CfgCaught(c2, 2)
                    ELSE
                    LET c3 == [c2 EXCEPT !.totalChannels = stoi(t2[1]).val]
                    IN  IF ~stoi(StripAlpha(t2[2])).ok THEN CfgCaught(c3, 2)
                        ELSE
                        LET c4 == [c3 EXCEPT !.numAnalogChannels =
                                      stoi(StripAlpha(t2[2])).val]
                        IN  IF ~stoi(StripAlpha(t2[3])).ok THEN CfgCaught(c4, 2)
                            ELSE
                            LET c5 == [c4 EXCEPT !.numDigitalChannels =
                                          stoi(StripAlpha(t2[3])).val]
                            IN  IF c5.numAnalogChannels < 0 THEN CfgCaught(c5, 2)
                                ELSE CfgAnalog(f, c5, 2, 0)

\* ComtradeParser::parseCfg on a file [open, lines], from the configuration
\* that clear() left
parseCfg(file) ==
    IF ~file.open THEN CfgFail(DefaultComtradeConfig, "Failed to open .cfg file")
    ELSE CfgHead(file.lines, DefaultComtradeConfig)

\* mutation: the offset b is not added
ScaleAnalogNoOffset(channel, rawValue) ==
    LET engSecondary == TruncDiv(channel.a * rawValue, 10)
        ctPtRatio == IF channel.secondary # 0
                     THEN TruncDiv(channel.primary * 10, channel.secondary)
                     ELSE 10
    IN  TruncDiv(engSecondary * ctPtRatio, 10)

\* the scaling of one raw value (in tenths) by the channel's a, b and
\* primary/secondary ratio
ScaleAnalog(channel, rawValue) ==
    LET engSecondary == TruncDiv(channel.a * rawValue, 10) + channel.b
        ctPtRatio == IF channel.secondary # 0
                     THEN TruncDiv(channel.primary * 10, channel.secondary)
                     ELSE 10
    IN  TruncDiv(engSecondary * ctPtRatio, 10)

\* one line of an ASCII .dat file: [ok, sample]; an exception of stoi or stod
\* drops the line
AsciiSample(tokens, c) ==
    LET nA == c.numAnalogChannels
        nD == c.numDigitalChannels
    IN  IF \/ ~stoi(tokens[1]).ok
           \/ ~stod(tokens[2]).ok
           \/ \E i \in 1..nA : ~stod(tokens[2 + i]).ok
           \/ \E i \in 1..nD : ~stoi(tokens[2 + nA + i]).ok
        THEN [ok |-> FALSE]
        ELSE [ok |-> TRUE,
              sample |->
                [sampleNumber |-> stoi(tokens[1]).val,
                 \* tenths of seconds times tenths, times 10^6 over 100
                 timestamp |-> stod(tokens[2]).val * c.timeFactor * 10000,
                 analogValues |->
                    [i \in 1..nA |-> ScaleAnalog(c.analogChannels[i], stod(tokens[2 + i]).val)],
                 digitalValues |->
                    [i \in 1..nD |-> stoi(tokens[2 + nA + i]).val # 0]]]

\* the while loop of parseDatAscii over the lines left
RECURSIVE AsciiLines(_, _, _)
AsciiLines(lines, c, samples) ==
    IF lines = << >> THEN samples
    ELSE LET tokens == splitLine(Head(lines))
             expectedTokens == 2 + c.numAnalogChannels + c.numDigitalChannels
         IN  IF Len(tokens) < expectedTokens THEN AsciiLines(Tail(lines), c, samples)
             ELSE IF ~AsciiSample(tokens, c).ok THEN AsciiLines(Tail(lines), c, samples)
             ELSE AsciiLines(Tail(lines), c, Append(samples, AsciiSample(tokens, c).sample))

\* the outcome of a .dat reader: return value, config_, samples_, message
DatOk(c, samples) ==
    [ok |-> TRUE, config |-> [c EXCEPT !.totalSamples = Len(samples)],
     samples |-> samples, err |-> << >>]
DatFail(c, msg) == [ok |-> FALSE, config |-> c, samples |-> << >>, err |-> <<msg>>]

\* ComtradeParser::parseDatAscii
parseDatAscii(file, c) ==
    IF ~file.open THEN DatFail(c, "Failed to open .dat file")
    ELSE DatOk(c, AsciiLines(file.lines, c, << >>))

\* a little-endian two's complement integer of w octets at offset o (0-based)
\* of the record buffer
RECURSIVE LeMagnitude(_, _, _, _)
LeMagnitude(buf, o, w, flip) ==
    IF w = 0 THEN 0
    ELSE (IF flip THEN 255 - buf[o + 1] ELSE buf[o + 1])
         + 256 * LeMagnitude(buf, o + 1, w - 1, flip)
LeSigned(buf, o, w) ==
    IF buf[o + w] >= 128 THEN 0 - LeMagnitude(buf, o, w, TRUE) - 1
    ELSE LeMagnitude(buf, o, w, FALSE)

\* one record of a binary .dat file, w octets per analog value
BinarySample(buf, c, w) ==
    LET nA == c.numAnalogChannels
        nD == c.numDigitalChannels
        \* bit k (0 is the least significant bit of the first octet) of the
        \* digital words at offset o
        DigitalBit(o, k) == (buf[o + (k \div 8) + 1] \div (2 ^ (k % 8))) % 2 = 1
    IN  [sampleNumber |-> LeSigned(buf, 0, 4),
         \* the raw time is unsigned; times tenths, times 10^6 over 10
         timestamp |-> LeMagnitude(buf, 4, 4, FALSE) * c.timeFactor * 100000,
         analogValues |->
            [i \in 1..nA |->
                ScaleAnalog(c.analogChannels[i], 10 * LeSigned(buf, 8 + (i - 1) * w, w))],
         digitalValues |-> [i \in 1..nD |-> DigitalBit(8 + nA * w, i - 1)]]

\* the while (file.read(...)) loop: a read that does not fill the buffer ends it
RECURSIVE BinaryRecords(_, _, _, _, _)
BinaryRecords(bytes, c, w, recordSize, samples) ==
    IF Len(bytes) < recordSize THEN samples
    ELSE BinaryRecords(SubSeq(bytes, recordSize + 1, Len(bytes)), c, w, recordSize,
                       Append(samples, BinarySample(SubSeq(bytes, 1, recordSize), c, w)))

\* size_t recordSize of a binary record with w octets per analog value
RecordSize(c, w) ==
    8 + c.numAnalogChannels * w + ((c.numDigitalChannels + 8 * w - 1) \div (8 * w)) * w

\* ComtradeParser::parseDatBinary
parseDatBinary(file, c) ==
    IF ~file.open THEN DatFail(c, "Failed to open binary .dat file")
    ELSE DatOk(c, BinaryRecords(file.bytes, c, 2, RecordSize(c, 2), << >>))

\* ComtradeParser::parseDatBinary32
parseDatBinary32(file, c) ==
    IF ~file.open THEN DatFail(c, "Failed to open binary32 .dat file")
    ELSE DatOk(c, BinaryRecords(file.bytes, c, 4, RecordSize(c, 4), << >>))

\* a ComtradeParser after clear()
NewParser ==
    [config_ |-> DefaultComtradeConfig, samples_ |-> << >>, loaded_ |-> FALSE,
     lastError_ |-> << >>]

\* ComtradeParser::load: [ret, parser]
load(cfg, dat) ==
    LET AfterDat(d) ==
            [ret |-> d.ok,
             parser |-> [config_ |-> d.config, samples_ |-> d.samples,
                         loaded_ |-> d.ok, lastError_ |-> d.err]]
        AfterCfg(r) ==
            IF ~r.ok
            THEN [ret |-> FALSE,
                  parser |-> [NewParser EXCEPT !.config_ = r.config, !.lastError_ = r.err]]
            ELSE IF r.config.dataFormat = "ASCII"
                 THEN AfterDat(parseDatAscii(dat, r.config))
            ELSE IF r.config.dataFormat = "BINARY"
                 THEN AfterDat(parseDatBinary(dat, r.config))
            ELSE AfterDat(parseDatBinary32(dat, r.config))
    IN  AfterCfg(parseCfg(cfg))

\* ComtradeParser::getSampleRate on a list of segments
RECURSIVE FirstRateAfter(_, _)
FirstRateAfter(rates, sampleIndex) ==
    IF rates = << >> THEN [found |-> FALSE]
    ELSE IF sampleIndex < Head(rates).endSample THEN [found |-> TRUE, rate |-> Head(rates).rate]
    ELSE FirstRateAfter(Tail(rates), sampleIndex)

\* mutation: the last matching segment instead of the first
getSampleRateLast(p, sampleIndex) ==
    LET rates == p.config_.sampleRates
        hits == {k \in 1..Len(rates) : sampleIndex < rates[k].endSample}
    IN  IF hits # {} THEN rates[CHOOSE k \in hits : \A j \in hits : j <= k].rate
        ELSE IF rates # << >> THEN rates[Len(rates)].rate
        ELSE 0

getSampleRate(p, sampleIndex) ==
    LET rates == p.config_.sampleRates
    IN  IF FirstRateAfter(rates, sampleIndex).found
        THEN FirstRateAfter(rates, sampleIndex).rate
        ELSE IF rates # << >> THEN rates[Len(rates)].rate
        ELSE 0

(***************************************************************************)
(* Files given to ComtradeParser::load                                     *)
(***************************************************************************)
\* the pairs of a .cfg and a .dat file load() is called with.  A .cfg file is
\* [open, lines]; a .dat file is [open, lines, bytes]: its lines for the text
\* reader, its octets for the binary readers
ParserInputs ==
    LET
        F0 == <<"0">>
        F1 == <<"1">>
        F2 == <<"2">>
        F3 == <<"3">>
        FX == <<"x">>

        CfgLine1 == <<<<"S", "T", "A">>, <<"D", "E", "V">>, <<"1", "9", "9", "9">>>>
        \* total, analog and digital counts
        CfgLine2(analog, digital) == <<F3, analog, digital>>
        \* index, name, phase, ccbm, units, a, b, skew, min, max, primary, secondary, P|S
        AnalogLine(index, name, a, b, primary, secondary) ==
            <<index, name, <<"A">>, << >>, <<"A">>, a, b, F0, <<"-", "9">>, <<"9">>,
              primary, secondary, <<"P">>>>
        \* "1,IA,A,,A,0.5,10,0,-9,9,1000,5,P"
        LineIA(index) ==
            AnalogLine(index, <<"I", "A">>, <<"0", ".", "5">>, <<"1", "0">>,
                       <<"1", "0", "0", "0">>, <<"5">>)
        \* "2,VA,A,,A,2,0,0,-9,9,1,0,P": secondary factor zero
        LineVA(index) == AnalogLine(index, <<"V", "A">>, F2, F0, F1, F0)
        DigitalLine == <<F1, <<"D", "1">>, << >>, << >>, F0>>
        LineFreq == <<<<"6", "0">>>>
        LineDate == <<<<"1", "/", "1", "/", "2", "0">>, <<"0", ":", "0">>>>
        FmtAscii == <<<<"A", "S", "C", "I", "I">>>>
        FmtBinary == <<<<"B", "I", "N", "A", "R", "Y">>>>
        FmtBinary32 == <<<<"B", "I", "N", "A", "R", "Y", "3", "2">>>>
        \* a line without text
        BlankLine == << << >> >>
        FmtLower == <<<<"a", "s", "c", "i", "i">>>>

        \* a .cfg file from its parts
        MkCfg(line2, analogs, digitals, nrates, rates, fmt, factor) ==
            [open |-> TRUE,
             lines |-> <<CfgLine1, line2>> \o analogs \o digitals \o <<LineFreq, nrates>>
                       \o rates \o <<LineDate, LineDate, fmt>> \o factor]

        TwoAnalog == <<LineIA(F1), LineVA(F2)>>
        OneRate == <<<<F2, F2>>>>
        \* the well-formed file of format fmt: channels IA and VA, one segment of 2 Hz
        \* ending at sample 2
        CfgGood(fmt) ==
            MkCfg(CfgLine2(<<"2", "A">>, <<"0", "D">>), TwoAnalog, << >>, <<F1>>, OneRate,
                  fmt, <<<<F1>>>>)
        \* one analog and one digital channel
        CfgMixed(fmt) ==
            MkCfg(CfgLine2(<<"1", "A">>, <<"1", "D">>), <<LineIA(F1)>>, <<DigitalLine>>,
                  <<F1>>, OneRate, fmt, <<<<F1>>>>)
        \* variations of the analog channel lines
        CfgAnalogs(analogs) ==
            MkCfg(CfgLine2(<<"2", "A">>, <<"0", "D">>), analogs, << >>, <<F1>>, OneRate,
                  FmtAscii, <<<<F1>>>>)
        \* variations of the sample rate section
        CfgRateLines(nrates, rates) ==
            MkCfg(CfgLine2(<<"2", "A">>, <<"0", "D">>), TwoAnalog, << >>, <<nrates>>, rates,
                  FmtAscii, <<<<F1>>>>)
        \* variations of line 2
        CfgCounts(analog, digital) ==
            MkCfg(CfgLine2(analog, digital), TwoAnalog, << >>, <<F1>>, OneRate, FmtAscii,
                  <<<<F1>>>>)

        \* the first k lines of a file
        Truncated(file, k) == [file EXCEPT !.lines = SubSeq(@, 1, k)]

        CfgAsciiFiles ==
            {CfgGood(FmtAscii), CfgMixed(FmtAscii)}
            \cup {CfgAnalogs(a) : a \in {<<LineIA(<<"5">>), LineVA(F2)>>,
                                         <<LineIA(F2), LineVA(F1)>>,
                                         <<LineIA(F0), LineVA(F0)>>,
                                         <<LineIA(F1), SubSeq(LineVA(F2), 1, 12)>>,
                                         <<LineIA(F1), LineVA(FX)>>}}
            \cup {CfgRateLines(n, r) : n \in {F1}, r \in {<<<<F2, F0>>>>, <<<<F2>>>>, <<<<FX, F2>>>>}}
            \cup {CfgRateLines(F2, r) : r \in {<<<<F2, F1>>, <<<<"4">>, F2>>>>,
                                              <<<<F2, F2>>, <<<<"4">>, F1>>>>,
                                              <<<<F2>>, <<<<"4">>, F2>>>>}}
            \cup {CfgRateLines(n, << >>) : n \in {F0, FX, <<"-", "1">>}}
            \cup {CfgCounts(a, d) : a \in {<<"2">>, <<"x", "A">>, <<"-", "1", "A">>}, d \in {<<"0", "D">>}}
            \cup {CfgCounts(<<"2", "A">>, <<"-", "1">>)}
            \cup {MkCfg(CfgLine2(<<"2", "A">>, <<"0", "D">>), TwoAnalog, << >>, <<F1>>, OneRate,
                        FmtAscii, factor) : factor \in {<< >>, <<BlankLine>>, <<<<FX>>>>}}

        CfgBadFiles ==
            {[open |-> FALSE, lines |-> << >>], CfgGood(FmtLower),
             [CfgGood(FmtAscii) EXCEPT !.lines[1] = <<<<"S", "T", "A">>>>],
             [CfgGood(FmtAscii) EXCEPT !.lines[1] = <<<<"S", "T", "A">>, <<"D", "E", "V">>, FX>>],
             [CfgGood(FmtAscii) EXCEPT !.lines[2] = <<F3, <<"2", "A">>>>]}
            \cup {Truncated(CfgGood(FmtAscii), k) : k \in 0..9}

        \* lines of an ASCII .dat file: sample number, time, values
        DatLine1 == <<F1, F0, <<"2", "0", "0">>, F3>>
        DatLine2 == <<F2, <<"0", ".", "5">>, <<"1", "0", "0">>, <<"-", "4">>>>
        DatLineShort == <<F3, F1, F1>>
        DatLineBad == <<F3, F1, FX, F1>>
        DatLineSuffix == <<F3, F1, <<"7", "x">>, F1>>

        TextFile(lines) == [open |-> TRUE, lines |-> lines, bytes |-> << >>]
        ByteFile(bytes) == [open |-> TRUE, lines |-> << >>, bytes |-> bytes]
        NoFile == [open |-> FALSE, lines |-> << >>, bytes |-> << >>]

        DatAsciiFiles ==
            {NoFile, TextFile(<< >>), TextFile(<<DatLine1, DatLine2>>),
             TextFile(<<DatLine1, DatLineShort, DatLine2>>),
             TextFile(<<DatLineBad, DatLine1>>),
             TextFile(<<DatLine1, DatLineSuffix>>)}

        \* the octets of a small integer, least significant first
        Le16(v) == LET u == IF v < 0 THEN v + U16 ELSE v IN <<u % 256, u \div 256>>
        Le32(v) == Le16(v) \o (IF v < 0 THEN <<255, 255>> ELSE <<0, 0>>)
        \* records of two values: sample number, time, values
        Record16(n, t, v1, v2) == Le32(n) \o Le32(t) \o Le16(v1) \o Le16(v2)
        Record32(n, t, v1, v2) == Le32(n) \o Le32(t) \o Le32(v1) \o Le32(v2)

        DatBinaryFiles ==
            {NoFile, ByteFile(<< >>),
             ByteFile(Record16(1, 0, 200, 3) \o Record16(2, 1, 100, -4)),
             ByteFile(Record16(1, 0, 200, 3) \o SubSeq(Record16(2, 1, 100, -4), 1, 7)),
             ByteFile(SubSeq(Record16(1, 0, 200, 3), 1, 11))}

        DatBinary32Files ==
            {NoFile, ByteFile(<< >>),
             ByteFile(Record32(1, 0, 200, 3) \o Record32(2, 1, 100, -4)),
             ByteFile(Record32(1, 0, 200, 3) \o SubSeq(Record32(2, 1, 100, -4), 1, 9)),
             ByteFile(SubSeq(Record32(1, 0, 200, 3), 1, 15))}
    IN
        ((CfgAsciiFiles \cup CfgBadFiles) \X DatAsciiFiles)
        \cup ({CfgGood(FmtBinary), CfgMixed(FmtBinary)} \X DatBinaryFiles)
        \cup ({CfgGood(FmtBinary32), CfgMixed(FmtBinary32)} \X DatBinary32Files)

(***************************************************************************)
(* State                                                                   *)
(***************************************************************************)
VARIABLES
    mode,            \* "phasor": PhasorInjectionTest, "comtrade": ComtradeReplayTest
    config_,         \* the object's configuration
    numSamples_,     \* ComtradeReplayTest::numSamples_
    resampledData_,  \* ComtradeReplayTest::resampledData_ [channel][sample]
    stats_,          \* statistics block
    running_,        \* std::atomic<bool> running_
    lastError_,      \* stored error string (its fixed head, without the names appended)
    joinable,        \* gooseThread_.joinable()
    pc,              \* position of the thread that calls configure() and run()
    lpc,             \* position of the GOOSE listener thread
    spc,             \* position of a caller of stop()
    sv,              \* the transmitter's SampledValue (smpCnt, smpRate)
    sampleIdx,       \* the transmitter's COMTRADE sample index
    rxRef,           \* listener: gocbRef of the message that matched
    cfgRet,          \* what the last configure() returned: "none", "ok", "fail"
    runRet,          \* what the last run() returned: "none", "true", "false"
    frame,           \* last frame submitted to the socket in this run
    runs,            \* run() calls that passed the entry checks
    clearedBy,       \* who cleared running_ during this run: "none", "listener", "stop"
    sendsAfterClear, \* frames submitted in this run since then
    pollsAfterClear, \* listener polls in this run since then
    matchSeen,       \* receive() returned a GOOSE stop frame while running_ was true
    cfgFile,         \* the .cfg file given to ComtradeParser::load
    datFile,         \* the .dat file given to ComtradeParser::load
    parser,          \* a ComtradeParser: config_, samples_, loaded_, lastError_
    loadRet,         \* what load() returned: "none", "true", "false"
    query,           \* the last getSampleRate call: its argument and result
    rx,              \* a frame given to decodeGoose and to the listeners' tests, and the outcome
    progressCallback_, \* whether a progress callback is registered
    timing           \* a Timer and the clocks, driven the way the transmit loops drive it

vars == <<mode, config_, numSamples_, resampledData_, stats_, running_, lastError_,
          joinable, pc, lpc, spc, sv, sampleIdx, rxRef, cfgRet, runRet, frame,
          runs, clearedBy, sendsAfterClear, pollsAfterClear, matchSeen,
          cfgFile, datFile, parser, loadRet, query, rx, progressCallback_, timing>>

objVars   == <<config_, numSamples_, resampledData_, stats_, running_, lastError_, joinable>>
txVars    == <<sv, sampleIdx, frame, runs>>
ghostVars == <<clearedBy, sendsAfterClear, pollsAfterClear, matchSeen>>
\* what configure(), run(), stop() and the listener thread leave alone
unitVars == <<cfgFile, datFile, parser, loadRet, query, rx, progressCallback_, timing>>

\* no frame handed to decodeGoose on its own
NoRx == [frame |-> << >>, called |-> FALSE, msg |-> EmptyGooseMessage,
         handed |-> FALSE, stop |-> FALSE]

\* a struct timespec
Timespec(sec, nsec) == [tv_sec |-> sec, tv_nsec |-> nsec]

\* no Timer followed on its own
NoTiming ==
    [pc |-> "none", mono |-> Timespec(0, 0), offset |-> Timespec(0, 0),
     waitPeriod |-> 0, next_period |-> Timespec(0, 0), t_ini |-> Timespec(0, 0),
     now_start |-> Timespec(0, 0), waits |-> 0, sends |-> 0,
     firstSend |-> Timespec(0, 0), immediate |-> 0]

\* no ComtradeParser of its own (loadComtradeFile owns the one it uses), no
\* decodeGoose call of its own, no progress callback, no Timer of its own
NoUnit ==
    /\ rx = NoRx
    /\ timing = NoTiming
    /\ progressCallback_ = FALSE
    /\ cfgFile = [open |-> FALSE, lines |-> << >>]
    /\ datFile = [open |-> FALSE, lines |-> << >>, bytes |-> << >>]
    /\ parser = NewParser
    /\ loadRet = "none"
    /\ query = [asked |-> FALSE, index |-> 0, rate |-> 0]

NoFrame ==
    [smpCnt |-> -1, idx |-> -1, ok |-> FALSE, samples |-> << >>,
     qualities |-> << >>, bytes |-> << >>, notified |-> FALSE]

\* default-constructed statistics
NewStats ==
    [packetsSent |-> 0, packetsFailed |-> 0, stoppedByGoose |-> FALSE,
     gooseStopReason |-> << >>, samplesInterpolated |-> 0,
     comtradeSampleRate |-> 0, outputSampleRate |-> 0, totalComtradeSamples |-> 0]

\* the process has not been terminated
Alive == pc # "terminated"

Init ==
    /\ mode \in {"phasor", "comtrade"}
    /\ config_ = DefaultConfig
    /\ numSamples_ = 0
    /\ resampledData_ = << >>
    /\ stats_ = NewStats
    /\ running_ = FALSE
    /\ lastError_ = ""
    /\ joinable = FALSE
    /\ pc = "idle"
    /\ lpc = "none"
    /\ spc = "s_idle"
    /\ sv = NewSampledValue(0, << >>, 0)
    /\ sampleIdx = 0
    /\ rxRef = << >>
    /\ cfgRet = "none"
    /\ runRet = "none"
    /\ frame = NoFrame
    /\ runs = 0
    /\ clearedBy = "none"
    /\ sendsAfterClear = 0
    /\ pollsAfterClear = 0
    /\ matchSeen = FALSE
    /\ NoUnit

(***************************************************************************)
(* configure()                                                             *)
(***************************************************************************)
\* the checks of configure() after config_ = config and before the COMTRADE
\* file is loaded, in the code's order: the error message of the first check
\* that fails, "" when all pass.  openOk and detected are what the temporary
\* socket's open() and getMacAddress() returned.
PreLoadError(m, c0, openOk, detected) ==
    IF Len(c0.srcMac) = 0 /\ ~openOk THEN "Failed to open interface"
    ELSE IF Len(c0.srcMac) = 0 /\ detected = MacZeroStr THEN "Failed to detect MAC address"
    ELSE IF c0.sampleRate = 0 THEN "Sample rate must be greater than 0"
    ELSE IF c0.iface = "" THEN "Interface name cannot be empty"
    ELSE IF m = "comtrade" /\ c0.cfgFilePath = ""
    THEN "COMTRADE .cfg file path cannot be empty"
    ELSE ""

\* the error configure() stores and reports by returning false, "" on success
ConfigureError(m, c0, openOk, detected) ==
    IF PreLoadError(m, c0, openOk, detected) # "" THEN PreLoadError(m, c0, openOk, detected)
    ELSE IF m = "comtrade" THEN loadComtradeFile(c0).err
    ELSE ""

\* whether loadComtradeFile was entered and got as far as writing stats_
\* (lines 89-91)
LoadWroteStats(m, c0, openOk, detected) ==
    /\ m = "comtrade"
    /\ PreLoadError(m, c0, openOk, detected) = ""
    /\ loadComtradeFile(c0).statsSet

\* configure(c0).  openOk and detected are read only when c0.srcMac is empty
\* and the object is not running.
Configure(c0, openOk, detected) ==
    /\ Alive /\ pc = "idle"
    /\ (Len(c0.srcMac) # 0 \/ running_) => (openOk /\ detected = MacSrcStr)
    /\ ~openOk => detected = MacSrcStr
    /\ IF running_
       THEN /\ lastError_' = "Cannot configure while test is running"
            /\ UNCHANGED <<config_, numSamples_, resampledData_, stats_>>
       ELSE LET err == ConfigureError(mode, c0, openOk, detected)
                c   == IF Len(c0.srcMac) = 0 /\ openOk
                       THEN [c0 EXCEPT !.srcMac = detected] ELSE c0
                f   == ParserLoad(c0.cfgFilePath)
            IN  /\ config_' = c
                /\ lastError_' = IF err = "" THEN lastError_ ELSE err
                /\ IF mode = "comtrade" /\ err = ""
                   THEN /\ resampledData_' = ResampledDataOf(c)
                        /\ numSamples_' = Len(resampledData_'[0])
                   ELSE UNCHANGED <<resampledData_, numSamples_>>
                /\ IF LoadWroteStats(mode, c0, openOk, detected)
                   THEN stats_' =
                          [stats_ EXCEPT
                             !.comtradeSampleRate = f.rate,
                             !.totalComtradeSamples = Len(f.samples),
                             !.outputSampleRate = c.sampleRate,
                             !.samplesInterpolated =
                                 IF err = "" THEN Len(resampledData_'[0]) ELSE @]
                   ELSE UNCHANGED stats_
    /\ cfgRet' = IF running_ \/ ConfigureError(mode, c0, openOk, detected) # ""
                 THEN "fail" ELSE "ok"
    /\ UNCHANGED <<mode, running_, joinable, pc, lpc, spc, rxRef, runRet>>
    /\ UNCHANGED txVars
    /\ UNCHANGED ghostVars
    /\ UNCHANGED unitVars

(***************************************************************************)
(* run(): entry checks, statistics reset, listener start                   *)
(***************************************************************************)
\* the "not configured" test of run()
NotConfigured ==
    IF mode = "comtrade" THEN config_.iface = "" \/ numSamples_ = 0
    ELSE config_.iface = ""

\* run() up to the statistics reset (phasor 57-70, comtrade 222-238)
RunEnter ==
    /\ Alive /\ pc = "idle"
    /\ IF running_ \/ NotConfigured
       THEN /\ lastError_' = IF running_ THEN "Test is already running"
                             ELSE "Test not configured"
            /\ runRet' = "false"
            /\ UNCHANGED <<pc, stats_, frame, runs>>
            /\ UNCHANGED ghostVars
       ELSE /\ runs < MaxRuns
            /\ runs' = runs + 1
            /\ stats_' = IF mode = "phasor" THEN NewStats
                         ELSE [stats_ EXCEPT !.packetsSent = 0, !.packetsFailed = 0,
                                             !.stoppedByGoose = FALSE,
                                             !.gooseStopReason = << >>]
            /\ pc' = "run_start"
            /\ runRet' = "none"
            /\ frame' = NoFrame
            /\ clearedBy' = "none"
            /\ sendsAfterClear' = 0
            /\ pollsAfterClear' = 0
            /\ matchSeen' = FALSE
            /\ UNCHANGED lastError_
    /\ UNCHANGED <<mode, config_, numSamples_, resampledData_, running_, joinable,
                   lpc, spc, sv, sampleIdx, rxRef, cfgRet>>
    /\ UNCHANGED unitVars

\* running_ = true; the listener thread is created when monitoring is enabled
\* (assigning to a std::thread that is still joinable terminates the process)
RunStart ==
    /\ pc = "run_start"
    /\ running_' = TRUE
    /\ IF config_.enableGooseMonitoring
       THEN IF joinable
            THEN /\ pc' = "terminated"
                 /\ UNCHANGED <<joinable, lpc>>
            ELSE /\ joinable' = TRUE
                 /\ lpc' = "l_open"
                 /\ pc' = "tx_open"
       ELSE /\ pc' = "tx_open"
            /\ UNCHANGED <<joinable, lpc>>
    /\ UNCHANGED <<mode, config_, numSamples_, resampledData_, stats_, lastError_,
                   spc, rxRef, cfgRet, runRet>>
    /\ UNCHANGED txVars
    /\ UNCHANGED ghostVars
    /\ UNCHANGED unitVars

(***************************************************************************)
(* transmissionLoop()                                                      *)
(***************************************************************************)
\* socket.open(iface); ok is what it returns
TxOpen(ok) ==
    /\ pc = "tx_open"
    /\ IF ok
       THEN /\ pc' = "tx_setup"
            /\ UNCHANGED <<lastError_, running_>>
       ELSE /\ lastError_' = "Failed to open raw socket"
            /\ running_' = FALSE
            /\ pc' = "join_check"
    /\ UNCHANGED <<mode, config_, numSamples_, resampledData_, stats_, joinable,
                   lpc, spc, rxRef, cfgRet, runRet>>
    /\ UNCHANGED txVars
    /\ UNCHANGED ghostVars
    /\ UNCHANGED unitVars

\* where the transmitter goes after its timer is aligned: the phasor loop is
\* while (running_) {...}, the COMTRADE loop is do {...} while (running_)
LoopEntry == IF mode = "phasor" THEN "tx_check" ELSE "tx_send"

\* Ethernet and Virtual_LAN are constructed (either may throw, and nothing in
\* run() catches), the SampledValue is created, waitPeriod is computed and the
\* timer is aligned.  abort: the outcome of the undefined double -> long
\* conversion of 1e9 / 0 when the sample rate is 0.
TxSetup(abort) ==
    /\ pc = "tx_setup"
    /\ abort => config_.sampleRate = 0
    /\ IF \/ EthernetCtorThrows(config_.dstMac, config_.srcMac)
          \/ VlanCtorThrows(config_.vlanPriority, config_.vlanId)
       THEN /\ pc' = "escaped"
            /\ UNCHANGED <<sv, sampleIdx>>
       ELSE /\ sv' = NewSampledValue(config_.appId, config_.svId, config_.sampleRate)
            /\ sampleIdx' = 0
            /\ pc' = IF abort THEN "terminated" ELSE LoopEntry
    /\ UNCHANGED objVars
    /\ UNCHANGED <<mode, lpc, spc, rxRef, cfgRet, runRet, frame, runs>>
    /\ UNCHANGED ghostVars
    /\ UNCHANGED unitVars

\* mutation: the loop does not test the flag
LoopTestAlways(r) == "tx_send"

\* while (running_): where the transmitter goes for the value it reads
LoopTest(r) == IF r THEN "tx_send" ELSE "join_check"

\* the loop test, reached after timer.wait_period(); leaving the loop closes
\* the socket
TxCheck ==
    /\ pc = "tx_check"
    /\ pc' = LoopTest(running_)
    /\ UNCHANGED objVars
    /\ UNCHANGED <<mode, lpc, spc, rxRef, cfgRet, runRet>>
    /\ UNCHANGED txVars
    /\ UNCHANGED ghostVars
    /\ UNCHANGED unitVars

\* sampleIdx after an iteration that stays at the last sample
NextSampleIdxStuck(i, n, loop) == IF i + 1 >= n THEN i ELSE i + 1

\* sampleIdx++; if (sampleIdx >= numSamples_) { if (config_.loopPlayback)
\* sampleIdx = 0; else break; }
NextSampleIdx(i, n, loop) == IF i + 1 >= n /\ loop THEN 0 ELSE i + 1

\* the {magnitude, angle} pairs handed to buildPacket for this iteration
PhasorsForFrame ==
    IF mode = "phasor" THEN config_.phasors
    ELSE [k \in 0..(NumSvChannels - 1) |-> <<resampledData_[k][sampleIdx + 1], 0>>]

\* the eight INT32 values buildPacket encodes in seqData; u is what the
\* conversion of NaN yields when smpRate is 0
BuildSamples(ph, s, u) ==
    [k \in 0..(NumSvChannels - 1) |->
        IF s.smpRate = 0 THEN u
        ELSE SynthSample(ph[k][1], ph[k][2], s.smpCnt, s.smpRate)]

\* the quality words of a caller that passes none (qualities = nullptr)
NoQualities == [k \in 0..(NumSvChannels - 1) |-> 0]

\* the frame of one iteration (comtrade 430-434, phasor 314-318 and 366-367):
\* the Ethernet header, the VLAN tag (DEI false), then the SV payload
FrameBytes(c, svPayload) ==
    EthernetGetEncoded(c.dstMac, c.srcMac)
    \o VlanGetEncoded(c.vlanPriority, FALSE, c.vlanId)
    \o svPayload

\* mutation: the sample counter advances only after a successful send
AfterSendOnlyOk(s, ok) == IF ok THEN incrementSampleCount(s) ELSE s

\* the counter after socket.send(): incremented whatever send() returned
AfterSend(s, ok) == incrementSampleCount(s)

\* mutation: every submitted frame is counted as sent
CountSendAlwaysSent(st, ok) ==
    IF ok THEN [st EXCEPT !.packetsSent = @ + 1]
    ELSE [st EXCEPT !.packetsSent = @ + 1, !.packetsFailed = @ + 1]

\* the statistics after send(): if (sent > 0) packetsSent++ else packetsFailed++
CountSend(st, ok) ==
    IF ok THEN [st EXCEPT !.packetsSent = @ + 1]
    ELSE [st EXCEPT !.packetsFailed = @ + 1]

\* whether the iteration invokes progressCallback_, st being the statistics
\* after the send was counted and cb telling that a callback is registered
\* (phasor 331-350, comtrade 440-459)
ProgressDue(c, st, ok, cb) ==
    /\ ok
    /\ c.verboseOutput
    /\ c.progressInterval > 0
    /\ st.packetsSent % c.progressInterval = 0
    /\ cb

\* one loop body: build the frame, send it (ok: send() returned > 0), count it,
\* report progress, advance smpCnt and, in COMTRADE mode, the sample index.
\* A transmission that nobody has cancelled is followed for MaxFrames frames.
TxSend(ok, u) ==
    /\ pc = "tx_send"
    /\ stats_.packetsSent + stats_.packetsFailed < MaxFrames \/ ~running_
    /\ (sv.smpRate # 0) => u = 0
    /\ frame' = [smpCnt |-> sv.smpCnt,
                 idx |-> IF mode = "comtrade" THEN sampleIdx ELSE -1,
                 ok |-> ok,
                 samples |-> BuildSamples(PhasorsForFrame, sv, u),
                 qualities |-> NoQualities,
                 bytes |-> FrameBytes(config_,
                               buildPacket(sv, BuildSamples(PhasorsForFrame, sv, u),
                                           NoQualities)),
                 notified |-> ProgressDue(config_, CountSend(stats_, ok), ok,
                                          progressCallback_)]
    /\ stats_' = CountSend(stats_, ok)
    /\ sv' = AfterSend(sv, ok)
    /\ IF mode = "comtrade"
       THEN /\ sampleIdx' = NextSampleIdx(sampleIdx, numSamples_, config_.loopPlayback)
            /\ pc' = IF sampleIdx + 1 >= numSamples_ /\ ~config_.loopPlayback
                     THEN "join_check" ELSE "tx_check"
       ELSE /\ pc' = "tx_check"
            /\ UNCHANGED sampleIdx
    /\ sendsAfterClear' = IF clearedBy # "none" THEN sendsAfterClear + 1
                          ELSE sendsAfterClear
    /\ UNCHANGED <<mode, config_, numSamples_, resampledData_, running_, lastError_,
                   joinable, lpc, spc, rxRef, cfgRet, runRet, runs, clearedBy,
                   pollsAfterClear, matchSeen>>
    /\ UNCHANGED unitVars

(***************************************************************************)
(* run(): joining the listener and returning                               *)
(***************************************************************************)
\* if (gooseThread_.joinable())
RunJoinCheck ==
    /\ pc = "join_check"
    /\ pc' = IF joinable THEN "join_call" ELSE "run_ret"
    /\ UNCHANGED objVars
    /\ UNCHANGED <<mode, lpc, spc, rxRef, cfgRet, runRet>>
    /\ UNCHANGED txVars
    /\ UNCHANGED ghostVars
    /\ UNCHANGED unitVars

\* gooseThread_.join() is entered.  join() on a thread that stop() has joined
\* meanwhile throws std::system_error; joining while stop() is joining the same
\* std::thread is a data race: throws says which outcome the race has.
RunJoinCall(throws) ==
    /\ pc = "join_call"
    /\ throws => joinable /\ spc = "s_joining"
    /\ pc' = IF ~joinable \/ throws THEN "escaped" ELSE "joining"
    /\ UNCHANGED objVars
    /\ UNCHANGED <<mode, lpc, spc, rxRef, cfgRet, runRet>>
    /\ UNCHANGED txVars
    /\ UNCHANGED ghostVars
    /\ UNCHANGED unitVars

\* join() returns once the listener thread has finished
RunJoinDone ==
    /\ pc = "joining"
    /\ lpc = "l_done"
    /\ joinable' = FALSE
    /\ pc' = "run_ret"
    /\ UNCHANGED <<mode, config_, numSamples_, resampledData_, stats_, running_,
                   lastError_, lpc, spc, rxRef, cfgRet, runRet>>
    /\ UNCHANGED txVars
    /\ UNCHANGED ghostVars
    /\ UNCHANGED unitVars

\* the value run() returns after transmissionLoop() and the join: return true
RunResult == "true"

\* run() returns; the locals of transmissionLoop() and the history of the run
\* are gone
RunReturn ==
    /\ pc = "run_ret"
    /\ runRet' = RunResult
    /\ pc' = "idle"
    /\ sv' = NewSampledValue(0, << >>, 0)
    /\ sampleIdx' = 0
    /\ rxRef' = << >>
    /\ frame' = NoFrame
    /\ clearedBy' = "none"
    /\ sendsAfterClear' = 0
    /\ pollsAfterClear' = 0
    /\ matchSeen' = FALSE
    /\ UNCHANGED objVars
    /\ UNCHANGED <<mode, lpc, spc, cfgRet, runs>>
    /\ UNCHANGED unitVars

(***************************************************************************)
(* gooseCaptureThreadFunc()                                                *)
(***************************************************************************)
\* the EtherType test each listener makes before it calls decodeGoose
\* (phasor 190-200, comtrade 314-318)
ListenerAccepts(m, f) ==
    IF m = "phasor"
    THEN /\ Len(f) > 16
         /\ LET et == IF At(f, 12) = 129 /\ At(f, 13) = 0 THEN 16 ELSE 12
            IN  et + 2 <= Len(f) /\ At(f, et) = 136 /\ At(f, et + 1) = 184
    ELSE Len(f) >= 16 /\ At(f, 12) = 136 /\ At(f, 13) = 184

\* the listener's stop decision for the frame receive() returned
StopMatch(m, f, ref) ==
    /\ Len(f) # 0
    /\ ListenerAccepts(m, f)
    /\ Decoded[f].valid
    /\ Contains(Decoded[f].gocbRef, ref)

\* socket.open(iface) in the listener thread
LOpen(ok) ==
    /\ Alive /\ lpc = "l_open"
    /\ lpc' = IF ok THEN "l_check" ELSE "l_done"
    /\ UNCHANGED objVars
    /\ UNCHANGED <<mode, pc, spc, rxRef, cfgRet, runRet>>
    /\ UNCHANGED txVars
    /\ UNCHANGED ghostVars
    /\ UNCHANGED unitVars

\* while (running_), reached at first and after each 10 ms sleep; leaving the
\* loop closes the socket
LCheck ==
    /\ Alive /\ lpc = "l_check"
    /\ lpc' = IF running_ THEN "l_recv" ELSE "l_done"
    /\ UNCHANGED objVars
    /\ UNCHANGED <<mode, pc, spc, rxRef, cfgRet, runRet>>
    /\ UNCHANGED txVars
    /\ UNCHANGED ghostVars
    /\ UNCHANGED unitVars

\* one poll: receive(), EtherType test, decodeGoose, substring test
LReceive(f) ==
    /\ Alive /\ lpc = "l_recv"
    /\ IF StopMatch(mode, f, config_.stopGooseRef)
       THEN /\ rxRef' = Decoded[f].gocbRef
            /\ lpc' = "l_mark"
       ELSE /\ lpc' = "l_check"
            /\ UNCHANGED rxRef
    /\ matchSeen' = \/ matchSeen
                     \/ /\ running_
                        /\ Len(f) # 0
                        /\ Decoded[f].valid
                        /\ Contains(Decoded[f].gocbRef, config_.stopGooseRef)
    /\ pollsAfterClear' = IF clearedBy # "none" THEN pollsAfterClear + 1
                          ELSE pollsAfterClear
    /\ UNCHANGED objVars
    /\ UNCHANGED <<mode, pc, spc, cfgRet, runRet, clearedBy, sendsAfterClear>>
    /\ UNCHANGED txVars
    /\ UNCHANGED unitVars

\* mutation: the listener clears the flag without recording the stop
LMarkNothing ==
    /\ Alive /\ lpc = "l_mark"
    /\ lpc' = "l_clear"
    /\ UNCHANGED objVars
    /\ UNCHANGED <<mode, pc, spc, rxRef, cfgRet, runRet>>
    /\ UNCHANGED txVars
    /\ UNCHANGED ghostVars
    /\ UNCHANGED unitVars

\* stats_.stoppedByGoose = true; stats_.gooseStopReason = msg.gocbRef
LMark ==
    /\ Alive /\ lpc = "l_mark"
    /\ stats_' = [stats_ EXCEPT !.stoppedByGoose = TRUE, !.gooseStopReason = rxRef]
    /\ lpc' = "l_clear"
    /\ UNCHANGED <<mode, config_, numSamples_, resampledData_, running_, lastError_,
                   joinable, pc, spc, rxRef, cfgRet, runRet>>
    /\ UNCHANGED txVars
    /\ UNCHANGED ghostVars
    /\ UNCHANGED unitVars

\* running_ = false; break; socket.close()
LClear ==
    /\ Alive /\ lpc = "l_clear"
    /\ running_' = FALSE
    /\ clearedBy' = IF running_ /\ clearedBy = "none" THEN "listener" ELSE clearedBy
    /\ lpc' = "l_done"
    /\ UNCHANGED <<mode, config_, numSamples_, resampledData_, stats_, lastError_,
                   joinable, pc, spc, rxRef, cfgRet, runRet, sendsAfterClear,
                   pollsAfterClear, matchSeen>>
    /\ UNCHANGED txVars
    /\ UNCHANGED unitVars

(***************************************************************************)
(* stop(), called from another thread or a signal handler                  *)
(***************************************************************************)
\* running_ = false
StopSet ==
    /\ Alive /\ spc = "s_idle"
    /\ running_' = FALSE
    /\ clearedBy' = IF running_ /\ clearedBy = "none" THEN "stop" ELSE clearedBy
    /\ spc' = "s_check"
    /\ UNCHANGED <<mode, config_, numSamples_, resampledData_, stats_, lastError_,
                   joinable, pc, lpc, rxRef, cfgRet, runRet, sendsAfterClear,
                   pollsAfterClear, matchSeen>>
    /\ UNCHANGED txVars
    /\ UNCHANGED unitVars

\* if (gooseThread_.joinable())
StopJoinCheck ==
    /\ Alive /\ spc = "s_check"
    /\ spc' = IF joinable THEN "s_call" ELSE "s_idle"
    /\ UNCHANGED objVars
    /\ UNCHANGED <<mode, pc, lpc, rxRef, cfgRet, runRet>>
    /\ UNCHANGED txVars
    /\ UNCHANGED ghostVars
    /\ UNCHANGED unitVars

\* gooseThread_.join() is entered by stop(); an exception leaving stop() is
\* caught by nobody and terminates the process.  throws: the outcome of the
\* race with run()'s join of the same std::thread.
StopJoinCall(throws) ==
    /\ Alive /\ spc = "s_call"
    /\ throws => joinable /\ pc = "joining"
    /\ IF ~joinable \/ throws
       THEN /\ pc' = "terminated"
            /\ spc' = "s_idle"
       ELSE /\ spc' = "s_joining"
            /\ UNCHANGED pc
    /\ UNCHANGED objVars
    /\ UNCHANGED <<mode, lpc, rxRef, cfgRet, runRet>>
    /\ UNCHANGED txVars
    /\ UNCHANGED ghostVars
    /\ UNCHANGED unitVars

\* stop()'s join() returns once the listener thread has finished
StopJoinDone ==
    /\ Alive /\ spc = "s_joining"
    /\ lpc = "l_done"
    /\ joinable' = FALSE
    /\ spc' = "s_idle"
    /\ UNCHANGED <<mode, config_, numSamples_, resampledData_, stats_, running_,
                   lastError_, pc, lpc, rxRef, cfgRet, runRet>>
    /\ UNCHANGED txVars
    /\ UNCHANGED ghostVars
    /\ UNCHANGED unitVars

(***************************************************************************)
(* setProgressCallback()                                                   *)
(***************************************************************************)
\* progressCallback_ = callback; cb tells whether the std::function handed in
\* holds a target
SetProgressCallback(cb) ==
    /\ Alive
    /\ progressCallback_' = cb
    /\ UNCHANGED objVars
    /\ UNCHANGED <<mode, pc, lpc, spc, rxRef, cfgRet, runRet>>
    /\ UNCHANGED txVars
    /\ UNCHANGED ghostVars
    /\ UNCHANGED <<cfgFile, datFile, parser, loadRet, query, rx, timing>>

(***************************************************************************)
(* Specifications                                                          *)
(***************************************************************************)
\* the steps of the thread inside run()
RunStep ==
    \/ RunStart
    \/ \E ok \in BOOLEAN : TxOpen(ok)
    \/ \E abort \in BOOLEAN : TxSetup(abort)
    \/ TxCheck
    \* u: what the NaN of a zero sample rate converts to (undefined behaviour
    \* of the double -> int32_t cast: INT32_MIN on x86, 0 on ARM)
    \/ \E ok \in BOOLEAN, u \in {0, -2147483647 - 1} : TxSend(ok, u)
    \/ RunJoinCheck
    \/ \E throws \in BOOLEAN : RunJoinCall(throws)
    \/ RunJoinDone
    \/ RunReturn

\* the steps of the listener thread
ListenerStep ==
    \/ \E ok \in BOOLEAN : LOpen(ok)
    \/ LCheck
    \/ \E f \in WireFrames : LReceive(f)
    \/ LMark
    \/ LClear

\* the steps of stop() once it has been entered
StopStep ==
    \/ StopJoinCheck
    \/ \E throws \in BOOLEAN : StopJoinCall(throws)
    \/ StopJoinDone

\* configure() called with a configuration of the set S
ConfigureCall(S) ==
    \E c \in S, openOk \in BOOLEAN, detected \in {MacSrcStr, MacZeroStr} :
        Configure(c, openOk, detected)

\* the object used with configurations that pass every check, by a thread that
\* calls configure() and run() and another that calls stop()
Next ==
    \/ ConfigureCall(RunConfigs(mode))
    \/ RunEnter
    \/ StopSet
    \/ RunStep
    \/ ListenerStep
    \/ StopStep

Spec == Init /\ [][Next]_vars

\* one thread that registers or removes a progress callback between runs,
\* configures with or without verbose output, and runs
NextProgress ==
    \/ ConfigureCall(ProgressConfigs)
    \/ pc = "idle" /\ \E cb \in BOOLEAN : SetProgressCallback(cb)
    \/ RunEnter
    \/ RunStart
    \/ \E ok \in BOOLEAN : TxOpen(ok)
    \/ TxSetup(FALSE)
    \/ TxCheck
    \/ \E ok \in BOOLEAN : TxSend(ok, 0)
    \/ RunJoinCheck
    \/ RunReturn

SpecProgress == Init /\ [][NextProgress]_vars

\* every thread that can take a step eventually takes one; the environment
\* is free never to call configure(), run() or stop() and never to deliver
\* a frame
FairSpec ==
    /\ Spec
    /\ WF_vars(RunStep)
    /\ WF_vars(ListenerStep)
    /\ WF_vars(StopStep)

\* the object handed any configuration of the model, nobody calling stop()
NextConfig ==
    \/ ConfigureCall(ConfigsOf(mode))
    \/ RunEnter
    \/ RunStep
    \/ ListenerStep

SpecConfig == Init /\ [][NextConfig]_vars

(***************************************************************************)
(* SampledValue::incrementSampleCount called again and again               *)
(***************************************************************************)

InitCnt ==
    /\ mode = "phasor"
    /\ config_ = DefaultConfig
    /\ numSamples_ = 0
    /\ resampledData_ = << >>
    /\ stats_ = NewStats
    /\ running_ = FALSE
    /\ lastError_ = ""
    /\ joinable = FALSE
    /\ pc = "counting"
    /\ lpc = "none"
    /\ spc = "s_idle"
    /\ sv \in {NewSampledValue(DefaultConfig.appId, DefaultConfig.svId, r) : r \in {1, 2, 3, U16 - 1}}
    /\ sampleIdx = 0
    /\ rxRef = << >>
    /\ cfgRet = "none"
    /\ runRet = "none"
    /\ frame = NoFrame
    /\ runs = 0
    /\ clearedBy = "none"
    /\ sendsAfterClear = 0
    /\ pollsAfterClear = 0
    /\ matchSeen = FALSE
    /\ NoUnit

\* one call; frame.smpCnt keeps the value the counter had before it
IncrementCall ==
    /\ pc = "counting"
    /\ frame' = [NoFrame EXCEPT !.smpCnt = sv.smpCnt]
    /\ sv' = incrementSampleCount(sv)
    /\ UNCHANGED objVars
    /\ UNCHANGED <<mode, pc, lpc, spc, sampleIdx, rxRef, cfgRet, runRet, runs>>
    /\ UNCHANGED ghostVars
    /\ UNCHANGED unitVars

SpecCnt == InitCnt /\ [][IncrementCall]_vars

(***************************************************************************)
(* One frame built the way the transmitter builds it, for stream states    *)
(* of many shapes                                                          *)
(***************************************************************************)
\* the configurations and sample counters a frame is built for: VLAN ids and
\* priorities at both ends of their ranges, APPIDs with either byte set, svIDs
\* around the 127-byte limit of a one-octet length, counters on either side
\* of 255
PacketInputs ==
    LET SvId(n) == [i \in 1..n |-> 65 + (i % 26)]
    IN  { [config |-> [BaseConfig EXCEPT !.vlanId = v, !.vlanPriority = p,
                                         !.appId = a, !.svId = id,
                                         !.sampleRate = 480],
           smpCnt |-> n] :
            v \in {0, 4, 4095}, p \in {0, 4, 7}, a \in {1, 16384, U16 - 1},
            id \in {<< >>, SvIdTest, SvId(127), SvId(128), SvId(MaxSvIdLength)},
            n \in {0, 1, 255, 256} }

InitPacket ==
    /\ mode = "phasor"
    /\ \E in \in PacketInputs :
          /\ config_ = in.config
          /\ sv = [NewSampledValue(in.config.appId, in.config.svId,
                                   in.config.sampleRate) EXCEPT !.smpCnt = in.smpCnt]
    /\ numSamples_ = 0
    /\ resampledData_ = << >>
    /\ stats_ = NewStats
    /\ running_ = FALSE
    /\ lastError_ = ""
    /\ joinable = FALSE
    /\ pc = "building"
    /\ lpc = "none"
    /\ spc = "s_idle"
    /\ sampleIdx = 0
    /\ rxRef = << >>
    /\ cfgRet = "none"
    /\ runRet = "none"
    /\ frame = NoFrame
    /\ runs = 0
    /\ clearedBy = "none"
    /\ sendsAfterClear = 0
    /\ pollsAfterClear = 0
    /\ matchSeen = FALSE
    /\ NoUnit

\* sv.buildPacket(phasors, qualities) and the assembly of the frame around it
BuildCall(q) ==
    /\ pc = "building" /\ frame = NoFrame
    /\ frame' = [smpCnt |-> sv.smpCnt,
                 idx |-> -1,
                 ok |-> FALSE,
                 samples |-> BuildSamples(PhasorsForFrame, sv, 0),
                 qualities |-> q,
                 bytes |-> FrameBytes(config_,
                               buildPacket(sv, BuildSamples(PhasorsForFrame, sv, 0), q)),
                 notified |-> FALSE]
    /\ UNCHANGED objVars
    /\ UNCHANGED <<mode, pc, lpc, spc, sv, sampleIdx, rxRef, cfgRet, runRet, runs>>
    /\ UNCHANGED ghostVars
    /\ UNCHANGED unitVars

SpecPacket ==
    /\ InitPacket
    /\ [][\E q \in {NoQualities, [k \in 0..(NumSvChannels - 1) |-> 2147483647 - k]} :
             BuildCall(q)]_vars

(***************************************************************************)
(* decodeGoose and the listeners' tests on their own, for whole frames and *)
(* for frames cut at every length                                          *)
(***************************************************************************)
InitDecode ==
    /\ mode \in {"phasor", "comtrade"}
    /\ config_ = BaseConfig
    /\ numSamples_ = 0
    /\ resampledData_ = << >>
    /\ stats_ = NewStats
    /\ running_ = FALSE
    /\ lastError_ = ""
    /\ joinable = FALSE
    /\ pc = "decoding"
    /\ lpc = "none"
    /\ spc = "s_idle"
    /\ sv = NewSampledValue(0, << >>, 0)
    /\ sampleIdx = 0
    /\ rxRef = << >>
    /\ cfgRet = "none"
    /\ runRet = "none"
    /\ frame = NoFrame
    /\ runs = 0
    /\ clearedBy = "none"
    /\ sendsAfterClear = 0
    /\ pollsAfterClear = 0
    /\ matchSeen = FALSE
    /\ cfgFile = [open |-> FALSE, lines |-> << >>]
    /\ datFile = [open |-> FALSE, lines |-> << >>, bytes |-> << >>]
    /\ parser = NewParser
    /\ loadRet = "none"
    /\ query = [asked |-> FALSE, index |-> 0, rate |-> 0]
    /\ LET \* an untagged GOOSE frame up to its PDU
           Header == <<1, 12, 205, 1, 0, 1>> \o <<0, 17, 34, 51, 68, 85>>
                     \o <<136, 184>> \o <<0, 1>> \o <<0, 40>> \o <<0, 0, 0, 0>>
           \* PDUs whose lengths are in long form: a PDU length of 200 in one
           \* octet, fields with lengths in one and two octets and with 0 and
           \* 3 octets announced; PDU lengths announced in 0 and in 3 octets; a
           \* PDU length of 256 in two octets
           LengthFrames ==
               { Header \o <<97, 129, 200, 128, 8>> \o GocbStop
                        \o <<133, 130, 0, 4, 0, 0, 0, 1>> \o <<134, 128>>
                        \o <<135, 131>> \o <<132, 129, 1, 9>>,
                 Header \o <<97, 128, 128, 8>> \o GocbStop,
                 Header \o <<97, 131, 0, 0, 12, 128, 8>> \o GocbStop,
                 Header \o <<97, 130, 1, 0, 128, 8>> \o GocbStop }
       IN  rx \in UNION {{[NoRx EXCEPT !.frame = SubSeq(f, 1, n)] : n \in 0..Len(f)} :
                         f \in WireFrames \cup LengthFrames}
    /\ progressCallback_ = FALSE
    /\ timing = NoTiming

\* decodeGoose(frame); the EtherType test of the listener of this mode and
\* its stop decision for the same frame (comtrade 314-343, phasor 188-228)
DecodeCall ==
    /\ pc = "decoding" /\ ~rx.called
    /\ rx' = [rx EXCEPT
                 !.called = TRUE,
                 !.msg = decodeGoose(rx.frame),
                 !.handed = Len(rx.frame) # 0 /\ ListenerAccepts(mode, rx.frame),
                 !.stop = /\ Len(rx.frame) # 0
                          /\ ListenerAccepts(mode, rx.frame)
                          /\ decodeGoose(rx.frame).valid
                          /\ Contains(decodeGoose(rx.frame).gocbRef, config_.stopGooseRef)]
    /\ UNCHANGED <<cfgFile, datFile, parser, loadRet, query, progressCallback_, timing>>
    /\ UNCHANGED <<objVars, txVars, ghostVars, mode, pc, lpc, spc, rxRef, cfgRet, runRet>>

SpecDecode == InitDecode /\ [][DecodeCall]_vars

(***************************************************************************)
(* ComtradeParser on its own: load() of a pair of files, then queries      *)
(***************************************************************************)
\* configure() called once on a new ComtradeReplayTest, for recordings of
\* several lengths and rates
SpecResample ==
    /\ Init /\ mode = "comtrade"
    /\ [][cfgRet = "none" /\ ConfigureCall(ResampleConfigs)]_vars

\* no getSampleRate call on the parser as it is now
NoQuery == [asked |-> FALSE, index |-> 0, rate |-> 0]

InitParser ==
    /\ mode = "comtrade"
    /\ config_ = DefaultConfig
    /\ numSamples_ = 0
    /\ resampledData_ = << >>
    /\ stats_ = NewStats
    /\ running_ = FALSE
    /\ lastError_ = ""
    /\ joinable = FALSE
    /\ pc = "parsing"
    /\ lpc = "none"
    /\ spc = "s_idle"
    /\ sv = NewSampledValue(0, << >>, 0)
    /\ sampleIdx = 0
    /\ rxRef = << >>
    /\ cfgRet = "none"
    /\ runRet = "none"
    /\ frame = NoFrame
    /\ runs = 0
    /\ clearedBy = "none"
    /\ sendsAfterClear = 0
    /\ pollsAfterClear = 0
    /\ matchSeen = FALSE
    /\ \E in \in ParserInputs : cfgFile = in[1] /\ datFile = in[2]
    /\ parser = NewParser
    /\ loadRet = "none"
    /\ query = NoQuery
    /\ rx = NoRx
    /\ progressCallback_ = FALSE
    /\ timing = NoTiming

\* bool ok = parser.load(cfgPath, datPath)
LoadCall ==
    /\ pc = "parsing"
    /\ loadRet = "none"
    /\ LET Returned(r) ==
               /\ parser' = r.parser
               /\ loadRet' = IF r.ret THEN "true" ELSE "false"
       IN  Returned(load(cfgFile, datFile))
    /\ query' = NoQuery
    /\ UNCHANGED <<cfgFile, datFile, rx, progressCallback_, timing>>
    /\ UNCHANGED <<objVars, txVars, ghostVars, mode, pc, lpc, spc, rxRef, cfgRet, runRet>>

\* double r = parser.getSampleRate(i)
GetSampleRateCall(i) ==
    /\ pc = "parsing"
    /\ query' = [asked |-> TRUE, index |-> i, rate |-> getSampleRate(parser, i)]
    /\ UNCHANGED <<cfgFile, datFile, parser, loadRet, rx, progressCallback_, timing>>
    /\ UNCHANGED <<objVars, txVars, ghostVars, mode, pc, lpc, spc, rxRef, cfgRet, runRet>>

NextParser ==
    \/ LoadCall
    \/ \E i \in -1..MaxSampleIndex : GetSampleRateCall(i)

SpecParser == InitParser /\ [][NextParser]_vars

(***************************************************************************)
(* Properties                                                              *)
(***************************************************************************)
\* C1: in COMTRADE replay with loopPlayback off and GOOSE monitoring on, once
\* the sample index has reached numSamples the run ends: run() eventually
\* returns, also in the behaviours where no GOOSE stop ever arrives and
\* nobody ever calls stop().  (Nobody is inside stop() and no GOOSE stop has
\* been delivered; the transmitter has left its loop at the end of the
\* stream; run() is over when it returned, an exception left it, or the
\* process is gone.)
C1_EndOfStreamReturns ==
    [](spc = "s_idle" /\ ~matchSeen) =>
        ((/\ mode = "comtrade"
          /\ pc \in {"join_check", "join_call", "joining"}
          /\ ~config_.loopPlayback
          /\ config_.enableGooseMonitoring
          /\ numSamples_ > 0
          /\ sampleIdx = numSamples_)
         ~> (pc \in {"idle", "escaped", "terminated"}))

\* C2: in either mode, with monitoring on, once the listener's socket has
\* delivered a GOOSE frame (VLAN-tagged or not) whose gocbRef contains
\* stopGooseRef while run() is active, eventually running is false, run() has
\* returned, stats.stoppedByGoose is true and gooseStopReason is that gocbRef
\* (checked in the behaviours where nobody calls stop() and the transmitter's
\* socket opens, so that nothing else ends the run).
C2_GooseStopEndsRun ==
    [](spc = "s_idle" /\ lastError_ # "Failed to open raw socket") =>
        (matchSeen ~> \/ /\ pc = "idle"
                         /\ runRet = "true"
                         /\ ~running_
                         /\ stats_.stoppedByGoose
                         /\ Contains(stats_.gooseStopReason, config_.stopGooseRef)
                      \/ pc \in {"escaped", "terminated"})

\* C3: in COMTRADE replay the INT32 encoded for sample index i and channel k
\* is resampledData[k][i], whatever smpCnt is.
C3_ReplayValuesDirect ==
    (mode = "comtrade" /\ frame # NoFrame) =>
        \A k \in 0..(NumSvChannels - 1) :
            frame.samples[k] = resampledData_[k][frame.idx + 1]

\* frames submitted to the socket in this run
Submitted == stats_.packetsSent + stats_.packetsFailed

C5_CounterInRange ==
    pc = "counting" =>
        /\ sv.smpCnt >= 0 /\ sv.smpCnt < sv.smpRate
        /\ frame # NoFrame =>
              /\ (sv.smpCnt = 0) <=> (frame.smpCnt + 1 = sv.smpRate)
              /\ (frame.smpCnt + 1 # sv.smpRate) => (sv.smpCnt = frame.smpCnt + 1)

\* the counter of rate 65535 has just wrapped
C5_WrapAt65535 ==
    /\ pc = "counting"
    /\ sv.smpRate = U16 - 1
    /\ frame.smpCnt = U16 - 2
    /\ sv.smpCnt = 0

\* C6: once running has been cleared by the listener or by stop(), the
\* transmitter submits at most one further frame, the listener makes at most
\* one further poll, and run() returns only when the listener thread has
\* finished.
C6_BoundedAfterClear ==
    /\ sendsAfterClear <= 1
    /\ pollsAfterClear <= 1
    /\ pc = "run_ret" => lpc \in {"none", "l_done"}

\* stop() cleared the flag, one more frame and one more poll followed, and
\* run() is about to return with the listener finished
C6_OneMoreEach ==
    /\ clearedBy = "stop"
    /\ sendsAfterClear = 1
    /\ pollsAfterClear = 1
    /\ pc = "run_ret"
    /\ lpc = "l_done"

\* C7: when the transmitter cannot open its raw socket, run() sends no frame,
\* clears running, joins the listener, stores the failure in lastError and
\* returns false.
C7_OpenFailureReturnsFalse ==
    (pc = "idle" /\ runRet # "none" /\ lastError_ = "Failed to open raw socket") =>
        /\ runRet = "false"
        /\ ~running_
        /\ Submitted = 0
        /\ ~joinable

\* C8: after configure() returned failure for one of the reasons for which it
\* may reject a configuration, a following run() transmits nothing, starts no
\* listener and returns failure: the object never leaves the idle position of
\* run().
C8_RejectedNeverRuns ==
    (/\ cfgRet = "fail"
     /\ lastError_ \in
            {"Sample rate must be greater than 0", "Interface name cannot be empty",
             "COMTRADE .cfg file path cannot be empty", "COMTRADE channel not found",
             "Invalid SV channel index", "Failed to load COMTRADE file",
             "COMTRADE file contains no samples"})
    => pc = "idle"

\* C9: configure() returns failure for every vlanId outside 0..4095, and such
\* a configuration never reaches run().
C9_VlanIdRejected ==
    config_.vlanId > 4095 => (cfgRet = "fail" /\ pc = "idle")

\* C10: for every configuration configure() accepted (a malformed MAC, a
\* vlanId above 4095, a vlanPriority above 7 included) run() ends by
\* returning: no exception leaves run() and the process is not terminated.
C10_NoExceptionEscapes ==
    cfgRet = "ok" => pc \notin {"escaped", "terminated"}

\* C11: every transmitter loop iteration increments exactly one of packetsSent
\* (send() returned > 0) and packetsFailed (otherwise) by one; a failed send
\* leaves the running flag as it is and stays in the loop, unless that same
\* iteration reached the end of a COMTRADE stream that is not looped.
C11_OneCounterPerSend ==
    [][(pc = "tx_send" /\ pc' \in {"tx_check", "join_check"}) =>
         /\ frame'.ok =>
               /\ stats_'.packetsSent = stats_.packetsSent + 1
               /\ stats_'.packetsFailed = stats_.packetsFailed
         /\ ~frame'.ok =>
               /\ stats_'.packetsFailed = stats_.packetsFailed + 1
               /\ stats_'.packetsSent = stats_.packetsSent
               /\ running_' = running_
               /\ \/ pc' = "tx_check"
                  \/ /\ mode = "comtrade" /\ ~config_.loopPlayback
                     /\ sampleIdx' >= numSamples_]_vars

\* MaxFrames consecutive failures, and the transmitter is still in its loop
\* with the flag set
C11_StillRunningAfterFailures ==
    /\ stats_.packetsFailed = MaxFrames
    /\ stats_.packetsSent = 0
    /\ ~frame.ok /\ frame # NoFrame
    /\ running_
    /\ pc = "tx_send"

\* C12: the listener records a GOOSE stop and clears running only for a
\* well-formed GOOSE message whose gocbRef contains stopGooseRef (a malformed
\* PDU changes nothing), and with enableGooseMonitoring false no listener
\* exists in the run and stoppedByGoose stays false.
C12_StopOnlyOnValidMatch ==
    /\ stats_.stoppedByGoose =>
          \E g \in WireFrames :
              /\ Len(g) # 0
              /\ Decoded[g].valid
              /\ ~DecodeTrace(g).breaks
              /\ Contains(Decoded[g].gocbRef, config_.stopGooseRef)
              /\ stats_.gooseStopReason = Decoded[g].gocbRef
    /\ (pc \notin {"idle", "run_start"} /\ ~config_.enableGooseMonitoring) =>
          (~stats_.stoppedByGoose /\ lpc \in {"none", "l_done"})

\* C13: stop() may be called at any moment relative to run(): the listener
\* thread is never inside join() of two callers at once and the process is
\* not terminated.
C13_StopIsSafe ==
    /\ ~(pc = "joining" /\ spc = "s_joining")
    /\ pc # "terminated"

(***************************************************************************)
(* Properties of ComtradeParser                                            *)
(***************************************************************************)
\* C14: whenever load() returns false the parser retains no partial state:
\* getConfig() equals a default-constructed configuration, no samples are
\* stored, isLoaded() is false and getLastError() is non-empty.
C14_FailedLoadKeepsNothing ==
    loadRet = "false" =>
        /\ parser.config_ = DefaultComtradeConfig
        /\ parser.samples_ = << >>
        /\ ~parser.loaded_
        /\ parser.lastError_ # << >>

\* C15: for BINARY and BINARY32, a .dat file whose length is not a whole
\* number of records makes load() fail with an error.
C15_PartialRecordFails ==
    \A w \in {2, 4} :
        (/\ loadRet # "none"
         /\ parseCfg(cfgFile).ok
         /\ parseCfg(cfgFile).config.dataFormat = (IF w = 2 THEN "BINARY" ELSE "BINARY32")
         /\ datFile.open
         /\ Len(datFile.bytes) % RecordSize(parseCfg(cfgFile).config, w) # 0)
        => (loadRet = "false" /\ parser.lastError_ # << >>)

\* C16: after every successful load analogChannels has exactly
\* numAnalogChannels entries and their index fields are 0..n-1 in list order.
C16_IndexesArePositions ==
    loadRet = "true" =>
        /\ Len(parser.config_.analogChannels) = parser.config_.numAnalogChannels
        /\ \A i \in 1..Len(parser.config_.analogChannels) :
              parser.config_.analogChannels[i].index = i - 1

\* C17: after a successful load with totalSamples > 0, sampleRates is
\* non-empty, has numSampleRates entries, its endSample values are strictly
\* increasing and the last one is at least totalSamples.
C17_RatesCoverSamples ==
    (loadRet = "true" /\ parser.config_.totalSamples > 0) =>
        LET rates == parser.config_.sampleRates
        IN  /\ rates # << >>
            /\ Len(rates) = parser.config_.numSampleRates
            /\ \A i \in 1..(Len(rates) - 1) : rates[i].endSample < rates[i + 1].endSample
            /\ rates[Len(rates)].endSample >= parser.config_.totalSamples

\* C18: getSampleRate(i) returns the rate of the first segment in list order
\* whose endSample is greater than i, the last segment's rate when there is
\* none, and 0 when the list is empty, for every i.
C18_RateOfFirstSegmentAfter ==
    query.asked =>
        LET rates == parser.config_.sampleRates
            after == {k \in 1..Len(rates) : rates[k].endSample > query.index}
        IN  /\ after # {} =>
                  \E k \in after : /\ \A j \in after : k <= j
                                   /\ query.rate = rates[k].rate
            /\ (after = {} /\ rates # << >>) => query.rate = rates[Len(rates)].rate
            /\ rates = << >> => query.rate = 0

\* two segments of different rates both end after the index asked about, and
\* the first one's rate was returned
C18_TwoSegmentsAfter ==
    /\ query.asked
    /\ loadRet = "true"
    /\ Len(parser.config_.sampleRates) = 2
    /\ parser.config_.sampleRates[1].endSample > query.index
    /\ parser.config_.sampleRates[2].endSample > query.index
    /\ parser.config_.sampleRates[1].rate # parser.config_.sampleRates[2].rate
    /\ query.rate = parser.config_.sampleRates[1].rate

\* C19: every analog value read from an ASCII, BINARY or BINARY32 record is
\* stored as (a*raw + b) * (primary/secondary) when the secondary factor of
\* the channel at the same position is non-zero, and as a*raw + b otherwise.
C19_ValuesScaled ==
    LET \* the raw analog values (in tenths) of the records of the .dat file, as
        \* the format c names lays them out
        RawRecords(c, w) ==
            IF c.dataFormat = "ASCII"
            THEN {[i \in 1..c.numAnalogChannels |->
                      stod(splitLine(datFile.lines[k])[2 + i]).val] :
                    k \in {j \in 1..Len(datFile.lines) :
                             Len(splitLine(datFile.lines[j])) >= 2 + c.numAnalogChannels}}
            ELSE {[i \in 1..c.numAnalogChannels |->
                      10 * LeSigned(datFile.bytes,
                                    (k - 1) * RecordSize(c, w) + 8 + (i - 1) * w, w)] :
                    k \in 1..(Len(datFile.bytes) \div RecordSize(c, w))}
        \* value (in tenths) is (a*raw + b) * (primary/secondary), or a*raw + b
        \* when the secondary factor is zero
        IsScaled(value, channel, raw) ==
            IF channel.secondary # 0
            THEN value * channel.secondary * 10
                   = (channel.a * raw + 10 * channel.b) * channel.primary
            ELSE value * 10 = channel.a * raw + 10 * channel.b
    IN  loadRet = "true" =>
            \A k \in 1..Len(parser.samples_) :
                \E raw \in RawRecords(parser.config_,
                                      IF parser.config_.dataFormat = "BINARY" THEN 2 ELSE 4) :
                    \A i \in 1..parser.config_.numAnalogChannels :
                        IsScaled(parser.samples_[k].analogValues[i],
                                 parser.config_.analogChannels[i], raw[i])

\* raw 200 with a = 0.5, b = 10, primary 1000, secondary 5 is stored as 22000,
\* and raw 3 with a = 2, b = 0 and secondary 0 as 6, in a binary file
C19_Example22000 ==
    /\ loadRet = "true"
    /\ parser.config_.dataFormat = "BINARY"
    /\ parser.config_.numAnalogChannels = 2
    /\ parser.config_.analogChannels[1].a = 5
    /\ parser.config_.analogChannels[1].b = 100
    /\ parser.config_.analogChannels[1].primary = 10000
    /\ parser.config_.analogChannels[1].secondary = 50
    /\ parser.config_.analogChannels[2].secondary = 0
    /\ Len(parser.samples_) >= 1
    /\ parser.samples_[1].analogValues = <<220000, 60>>
    /\ SubSeq(datFile.bytes, 1, 12) = <<1, 0, 0, 0, 0, 0, 0, 0, 200, 0, 3, 0>>

\* C20: after a successful load every stored sample has exactly
\* numAnalogChannels analog and numDigitalChannels digital values and
\* totalSamples is the number of stored samples; an ASCII line with too few
\* fields or with a non-numeric field adds no sample, and the lines after it
\* are still parsed.
C20_SamplesComplete ==
    LET Unsigned(t) == IF t # << >> /\ Head(t) \in {"-", "+"} THEN Tail(t) ELSE t
        Plain(t) ==
            /\ \E k \in 1..Len(t) : IsDigit(t[k])
            /\ \A k \in 1..Len(t) : IsDigit(t[k]) \/ t[k] = "."
            /\ Cardinality({k \in 1..Len(t) : t[k] = "."}) <= 1
        \* a field that is a decimal number and nothing else
        IsNumeric(field) == Plain(Unsigned(trim(field)))
        \* the lines of the ASCII .dat file that have enough fields, all numeric
        NumericLines(c) ==
            {k \in 1..Len(datFile.lines) :
                /\ Len(splitLine(datFile.lines[k]))
                      >= 2 + c.numAnalogChannels + c.numDigitalChannels
                /\ \A i \in 1..(2 + c.numAnalogChannels + c.numDigitalChannels) :
                      IsNumeric(splitLine(datFile.lines[k])[i])}
    IN
    loadRet = "true" =>
        /\ \A k \in 1..Len(parser.samples_) :
              /\ Len(parser.samples_[k].analogValues) = parser.config_.numAnalogChannels
              /\ Len(parser.samples_[k].digitalValues) = parser.config_.numDigitalChannels
        /\ parser.config_.totalSamples = Len(parser.samples_)
        /\ parser.config_.dataFormat = "ASCII" =>
              Len(parser.samples_) = Cardinality(NumericLines(parser.config_))

(***************************************************************************)
(* Properties of loadComtradeFile and resampleData                         *)
(***************************************************************************)
\* C21 (as written): after a successful configure() of a recording of n
\* samples at inRate replayed at outRate, each of the eight channels holds
\* exactly ceil(n * outRate / inRate) samples, numSamples_ is that number,
\* and with equal rates every channel is the input unchanged.
C21_ResampledLength ==
    (mode = "comtrade" /\ cfgRet = "ok") =>
        LET f == ParserLoad(config_.cfgFilePath)
            n == (Len(f.samples) * config_.sampleRate + f.rate - 1) \div f.rate
        IN  /\ numSamples_ = n
            /\ \A k \in 0..(NumSvChannels - 1) :
                  /\ Len(resampledData_[k]) = n
                  /\ f.rate = config_.sampleRate =>
                        resampledData_[k] = AnalogData(f, config_.channelMapping, k)

(***************************************************************************)
(* Properties of the frames: Ethernet::getEncoded, Virtual_LAN::getEncoded *)
(* and SampledValue::buildPacket                                           *)
(***************************************************************************)
\* C22: every frame consists, in this order, of the destination MAC, the
\* source MAC, 0x81 0x00, the TCI (priority << 13) | (DEI << 12) | vlanId
\* big-endian, 0x88 0xBA, the APPID big-endian, two length bytes, four zero
\* bytes and the SAVPDU, whose first byte is 0x60; for dst 01:0C:CD:01:00:00,
\* src AA:BB:CC:DD:EE:FF, vlan 4, priority 4 and appId 0x4000 the first 20
\* bytes are 01 0C CD 01 00 00 AA BB CC DD EE FF 81 00 80 04 88 BA 40 00.
C22_FrameLayout ==
    frame # NoFrame =>
        /\ Len(frame.bytes) > 27
        /\ SubSeq(frame.bytes, 1, 12) =
               <<1, 12, 205, 1, 0, 0, 170, 187, 204, 221, 238, 255>>
        /\ SubSeq(frame.bytes, 13, 14) = <<129, 0>>
        /\ 256 * frame.bytes[15] + frame.bytes[16] =
               8192 * config_.vlanPriority + 4096 * 0 + config_.vlanId
        /\ SubSeq(frame.bytes, 17, 18) = <<136, 186>>
        /\ 256 * frame.bytes[19] + frame.bytes[20] = config_.appId
        /\ SubSeq(frame.bytes, 23, 26) = <<0, 0, 0, 0>>
        /\ frame.bytes[27] = 96
        /\ (config_.vlanId = 4 /\ config_.vlanPriority = 4 /\ config_.appId = 16384) =>
              SubSeq(frame.bytes, 1, 20) =
                 <<1, 12, 205, 1, 0, 0, 170, 187, 204, 221, 238, 255,
                   129, 0, 128, 4, 136, 186, 64, 0>>

\* the frame of the example was built
C22_ExampleFrame ==
    /\ frame # NoFrame
    /\ config_.vlanId = 4 /\ config_.vlanPriority = 4 /\ config_.appId = 16384
    /\ config_.svId = SvIdTest /\ sv.smpCnt = 0
    /\ SubSeq(frame.bytes, 13, 20) = <<129, 0, 128, 4, 136, 186, 64, 0>>

C24_RoundTrip ==
    frame # NoFrame =>
        LET b == frame.bytes
            Tlv(p) ==
                IF p < 1 \/ p + 1 > Len(b)
                THEN [ok |-> FALSE, tag |-> 0, from |-> 0, to |-> 0, short |-> FALSE]
                ELSE IF b[p + 1] < 128
                THEN [ok |-> p + 1 + b[p + 1] <= Len(b), tag |-> b[p],
                      from |-> p + 2, to |-> p + 1 + b[p + 1], short |-> TRUE]
                ELSE IF b[p + 1] = 129 /\ p + 2 <= Len(b)
                THEN [ok |-> p + 2 + b[p + 2] <= Len(b), tag |-> b[p],
                      from |-> p + 3, to |-> p + 2 + b[p + 2], short |-> FALSE]
                ELSE IF b[p + 1] = 130 /\ p + 3 <= Len(b)
                THEN [ok |-> p + 3 + 256 * b[p + 2] + b[p + 3] <= Len(b), tag |-> b[p],
                      from |-> p + 4, to |-> p + 3 + 256 * b[p + 2] + b[p + 3],
                      short |-> FALSE]
                ELSE [ok |-> FALSE, tag |-> 0, from |-> 0, to |-> 0, short |-> FALSE]
            field[i \in 1..10] ==
                IF i = 1 THEN Tlv(27)
                ELSE IF i \in {2, 4, 5} THEN Tlv(field[i - 1].from)
                ELSE Tlv(field[i - 1].to + 1)
            Unsigned(t) ==
                CASE t.to - t.from = 0 -> b[t.from]
                  [] t.to - t.from = 1 -> 256 * b[t.from] + b[t.from + 1]
                  [] OTHER -> 16777216 * b[t.from] + 65536 * b[t.from + 1]
                              + 256 * b[t.from + 2] + b[t.from + 3]
            Word(at) == 16777216 * b[at] + 65536 * b[at + 1] + 256 * b[at + 2] + b[at + 3]
            Int32(at) ==
                16777216 * (IF b[at] >= 128 THEN b[at] - 256 ELSE b[at])
                + 65536 * b[at + 1] + 256 * b[at + 2] + b[at + 3]
            Fields(f) ==
                /\ \A i \in 1..10 :
                      /\ f[i].ok
                      /\ f[i].tag = <<96, 128, 162, 48, 128, 130, 131, 133, 134, 135>>[i]
                      /\ f[i].short = (f[i].to - f[i].from + 1 <= 127)
                /\ f[1].to = Len(b) /\ f[3].to = f[1].to /\ f[4].to = f[3].to
                /\ f[10].to = f[4].to
                /\ SubSeq(b, f[5].from, f[5].to) = sv.svID
                /\ f[6].to - f[6].from = 1 /\ Unsigned(f[6]) = frame.smpCnt
                /\ f[7].to - f[7].from = 3 /\ Unsigned(f[7]) = sv.confRev
                /\ f[8].to - f[8].from = 0 /\ Unsigned(f[8]) = sv.smpSynch
                /\ f[9].to - f[9].from = 1 /\ Unsigned(f[9]) = sv.smpRate
                /\ f[10].to - f[10].from = 63
                /\ \A k \in 0..(NumSvChannels - 1) :
                      /\ Int32(f[10].from + 8 * k) = frame.samples[k]
                      /\ Word(f[10].from + 8 * k + 4) = frame.qualities[k]
        IN  Fields([i \in 1..10 |-> field[i]])

(***************************************************************************)
(* Properties of decodeGoose and of the two listeners                      *)
(***************************************************************************)
\* C25 (as written): decodeGoose marks the message invalid whenever a field
\* inside the PDU runs past the end of the frame, also when a gocbRef was
\* extracted before; when nothing overruns, the message is valid exactly
\* when gocbRef is not empty.
C25_OverrunInvalid ==
    rx.called =>
        /\ DecodeTrace(rx.frame).breaks => ~rx.msg.valid
        /\ ~DecodeTrace(rx.frame).breaks => (rx.msg.valid <=> Len(rx.msg.gocbRef) # 0)

\* C30 (as written): both listeners hand the same frames to decodeGoose: a
\* frame is decoded exactly when its EtherType, read at offset 12, or at
\* offset 16 behind an 802.1Q tag (bytes 12-13 = 0x81 0x00), is 0x88B8; and a
\* tagged frame gives the decoded message and the stop decision of its
\* untagged copy, whatever the mode.  Stated for frames of more than 16
\* bytes, the shortest both listeners look at.
C30_SameFrames ==
    LET f      == rx.frame
        tagged == At(f, 12) = 129 /\ At(f, 13) = 0
        et     == IF tagged THEN 16 ELSE 12
        copy   == SubSeq(f, 1, 12) \o SubSeq(f, 17, Len(f))
    IN  rx.called /\ Len(f) > 16 =>
            /\ rx.handed <=> (et + 2 <= Len(f) /\ At(f, et) = 136 /\ At(f, et + 1) = 184)
            /\ tagged /\ f \in WireFrames =>
                   /\ rx.msg = decodeGoose(copy)
                   /\ rx.stop <=> /\ At(copy, 12) = 136 /\ At(copy, 13) = 184
                                   /\ decodeGoose(copy).valid
                                   /\ Contains(decodeGoose(copy).gocbRef, config_.stopGooseRef)

(***************************************************************************)
(* Properties of the loop test, the listener's stop and the progress       *)
(* callback                                                                *)
(***************************************************************************)
\* C28 (as written): the transmitter tests running_ before every send, the
\* first included, in both modes: every step that takes it to socket.send()
\* is made with running_ true, so a flag cleared during the alignment wait
\* lets no frame out.
C28_TestedBeforeEverySend ==
    [][pc # "tx_send" /\ pc' = "tx_send" => running_]_vars

\* C29: on a match the listener writes stoppedByGoose and gooseStopReason
\* before it clears running_, and polls no further frame: whenever the
\* listener is about to clear the flag or has cleared it, stoppedByGoose is
\* true and gooseStopReason is the matched gocbRef, which contains
\* stopGooseRef; and while the listener thread is alive only its own step
\* LMark changes these two fields.
C29_RecordedBeforeClear ==
    /\ [](lpc = "l_clear" \/ clearedBy = "listener" =>
             /\ stats_.stoppedByGoose
             /\ stats_.gooseStopReason = rxRef
             /\ Contains(stats_.gooseStopReason, config_.stopGooseRef)
             /\ clearedBy = "listener" => pollsAfterClear = 0)
    /\ [][/\ lpc \notin {"none", "l_done"}
           /\ \/ stats_.stoppedByGoose' # stats_.stoppedByGoose
              \/ stats_.gooseStopReason' # stats_.gooseStopReason
           => lpc = "l_mark" /\ lpc' = "l_clear"]_vars

\* the listener has stopped a running transmission on "IED/STOP"
C29_StoppedByListener ==
    /\ clearedBy = "listener" /\ lpc = "l_done" /\ ~running_
    /\ stats_.stoppedByGoose /\ stats_.gooseStopReason = GocbStop

\* C27 (as written): with a callback registered and progressInterval > 0 the
\* callback is invoked by exactly the sends that succeed and bring packetsSent
\* to a positive multiple of progressInterval, whether or not verboseOutput is
\* set; frame is the last frame handed to send() and stats_ counts it.
C27_ProgressEveryInterval ==
    frame # NoFrame =>
        (frame.notified <=>
            /\ progressCallback_
            /\ config_.progressInterval > 0
            /\ frame.ok
            /\ stats_.packetsSent % config_.progressInterval = 0)

(***************************************************************************)
(* Properties of the channel mapping                                       *)
(***************************************************************************)
\* C26 (as written): a configure() given a mapping with an unknown channel
\* name or an SV index outside 0..7 fails; after a successful configure(), an
\* SV channel no mapping targets is all zeros, and an SV channel k targeted by
\* a mapping (name, k) holds the INT32 conversion of the resampled values of
\* the recording's analog channel with that name (the column of the .dat file
\* at the channel's place in the .cfg).
C26_MappedChannels ==
    LET f       == ParserLoad(config_.cfgFilePath)
        mapping == config_.channelMapping
        rate    == config_.sampleRate
        Column(name) ==
            [i \in 1..Len(f.samples) |-> f.samples[i][getAnalogChannel(f, name)]]
        Int32Of(d) ==
            IF Abs(f.rate - rate) * 10 > 1
            THEN LET r == resampleData(d, f.rate, rate)
                 IN  [i \in 1..Len(r) |-> DblToInt(r[i])]
            ELSE d
    IN  /\ /\ mode = "comtrade" /\ cfgRet # "none"
           /\ \E m \in 1..Len(mapping) :
                  \/ mapping[m][2] \notin 0..(NumSvChannels - 1)
                  \/ getAnalogChannel(f, mapping[m][1]) = 0
           => cfgRet = "fail"
        /\ mode = "comtrade" /\ cfgRet = "ok" =>
             \A k \in 0..(NumSvChannels - 1) :
                 /\ (\A m \in 1..Len(mapping) : mapping[m][2] # k) =>
                        resampledData_[k] = [i \in 1..numSamples_ |-> 0]
                 /\ \A m \in 1..Len(mapping) :
                        mapping[m][2] = k =>
                            resampledData_[k] = Int32Of(Column(mapping[m][1]))


(***************************************************************************)
(* Properties of interpolateLinear                                         *)
(***************************************************************************)
\* C31 (as written): after a successful configure() that resamples, output j
\* of every channel, with x = j * inRate / outRate, is the first input when
\* x <= 0 and the last one when x >= n - 1; otherwise it is interpolated
\* between inputs floor(x) and floor(x) + 1, both inside 0..n-1, and lies
\* between those two inputs, and so does the INT32 value replayed for it; and
\* [0, 1, 2, 3] at 1000 Hz resampled to 2000 Hz is [0, 0.5, 1, 1.5, 2, 2.5, 3, 3].
C31_InterpolatedBetweenNeighbours ==
    LET f     == ParserLoad(config_.cfgFilePath)
        n     == Len(f.samples)
        out   == config_.sampleRate
        \* lo <= v <= hi for a double v and whole numbers lo, hi
        Within(v, lo, hi) ==
            /\ lo <= (IF v.sign > 0 THEN DblFloor(v) ELSE 0 - DblCeil(v))
            /\ hi >= (IF v.sign > 0 THEN DblCeil(v) ELSE 0 - DblFloor(v))
        Lo(a, b) == IF a < b THEN a ELSE b
        Hi(a, b) == IF a < b THEN b ELSE a
        example == resampleData(<<0, 1, 2, 3>>, 1000, 2000)
    IN  /\ (mode = "comtrade" /\ cfgRet = "ok" /\ Abs(f.rate - out) * 10 > 1) =>
              \A k \in 0..(NumSvChannels - 1) :
                  LET d == AnalogData(f, config_.channelMapping, k)
                      r == resampleData(d, f.rate, out)
                  IN  \A j \in 0..(Len(r) - 1) :
                          LET i == (j * f.rate) \div out
                          IN  /\ resampledData_[k][j + 1] = DblToInt(r[j + 1])
                              /\ j = 0 => r[j + 1] = DblOfInt(d[1])
                              /\ j * f.rate >= (n - 1) * out => r[j + 1] = DblOfInt(d[n])
                              /\ (j > 0 /\ j * f.rate < (n - 1) * out) =>
                                    /\ i >= 0 /\ i + 1 <= n - 1
                                    /\ Within(r[j + 1], Lo(d[i + 1], d[i + 2]),
                                                        Hi(d[i + 1], d[i + 2]))
                                    /\ resampledData_[k][j + 1] >= Lo(d[i + 1], d[i + 2])
                                    /\ resampledData_[k][j + 1] <= Hi(d[i + 1], d[i + 2])
        /\ Len(example) = 8
        /\ \A j \in 1..8 :
               DblMul(example[j], DblOfInt(2)) = DblOfInt(<<0, 1, 2, 3, 4, 5, 6, 6>>[j])

(***************************************************************************)
(* Timer (timer.h, POSIX build) and the start of the two transmit loops:   *)
(* the alignment to a second, start_period(t_ini), the first wait_period,  *)
(* then one wait_period per frame.  The clocks are followed in struct      *)
(* timespec form; a sleep ends at its target or a little later, a send     *)
(* takes a whole number of periods (none when it finishes inside its slot) *)
(***************************************************************************)
Second == 1000000000

MaxTicks == 3
MaxOverrun == 3

\* a <= b, for normalized a and b
TimeLeq(a, b) ==
    a.tv_sec < b.tv_sec \/ (a.tv_sec = b.tv_sec /\ a.tv_nsec <= b.tv_nsec)

\* what a clock that showed t shows after k intervals of ns nanoseconds
RECURSIVE Elapsed(_, _, _)
Elapsed(t, k, ns) ==
    IF k = 0 THEN t
    ELSE Elapsed(Timespec(t.tv_sec + ((t.tv_nsec + ns) \div Second),
                          (t.tv_nsec + ns) % Second), k - 1, ns)

\* CLOCK_REALTIME when CLOCK_MONOTONIC shows mono: the two differ by t.offset
Realtime(t, mono) ==
    Elapsed(Timespec(mono.tv_sec + t.offset.tv_sec, mono.tv_nsec), 1, t.offset.tv_nsec)

\* while (next_period.tv_nsec >= 1000000000L) { tv_sec += 1; tv_nsec -= 1000000000L; }
RECURSIVE CarrySeconds(_)
CarrySeconds(next_period) ==
    IF next_period.tv_nsec >= Second
    THEN CarrySeconds(Timespec(next_period.tv_sec + 1, next_period.tv_nsec - Second))
    ELSE next_period

\* increment_period carrying one second at most
increment_period_if(next_period, period_ns) ==
    IF next_period.tv_nsec + period_ns >= Second
    THEN Timespec(next_period.tv_sec + 1, next_period.tv_nsec + period_ns - Second)
    ELSE Timespec(next_period.tv_sec, next_period.tv_nsec + period_ns)

\* Timer::increment_period(period_ns)
increment_period(next_period, period_ns) ==
    CarrySeconds(Timespec(next_period.tv_sec, next_period.tv_nsec + period_ns))

\* Timer::wait_period(period_ns): the absolute sleep to next_period, which
\* returns at once when that instant is not in the future, then
\* increment_period; late is the lateness of the wake-up
wait_period(t, late) ==
    LET slept == ~TimeLeq(t.next_period, t.mono)
    IN  [t EXCEPT !.pc = "send",
                  !.mono = IF slept THEN Elapsed(t.next_period, 1, late) ELSE @,
                  !.next_period = increment_period(@, t.waitPeriod),
                  !.waits = @ + 1,
                  !.immediate = IF slept \/ t.pc = "first" THEN 0 ELSE @ + 1]

\* a Timer about to be started by transmissionLoop, for several readings of
\* the two clocks and several periods
InitTimer ==
    /\ mode \in {"phasor", "comtrade"}
    /\ config_ = BaseConfig
    /\ numSamples_ = 0
    /\ resampledData_ = << >>
    /\ stats_ = NewStats
    /\ running_ = FALSE
    /\ lastError_ = ""
    /\ joinable = FALSE
    /\ pc = "timing"
    /\ lpc = "none"
    /\ spc = "s_idle"
    /\ sv = NewSampledValue(0, << >>, 0)
    /\ sampleIdx = 0
    /\ rxRef = << >>
    /\ cfgRet = "none"
    /\ runRet = "none"
    /\ frame = NoFrame
    /\ runs = 0
    /\ clearedBy = "none"
    /\ sendsAfterClear = 0
    /\ pollsAfterClear = 0
    /\ matchSeen = FALSE
    /\ cfgFile = [open |-> FALSE, lines |-> << >>]
    /\ datFile = [open |-> FALSE, lines |-> << >>, bytes |-> << >>]
    /\ parser = NewParser
    /\ loadRet = "none"
    /\ query = [asked |-> FALSE, index |-> 0, rate |-> 0]
    /\ rx = NoRx
    /\ progressCallback_ = FALSE
    /\ timing \in {[NoTiming EXCEPT !.pc = "align",
                                    !.mono = Timespec(10, n),
                                    !.offset = o,
                                    !.waitPeriod = p] :
                   n \in {0, 1, 500000000, 500000001, 999999999},
                   o \in {Timespec(1000, 0), Timespec(1000, 250000000)},
                   p \in {0, 1, 208333, 999999999, Second, Second + 147483647}}

\* the start of transmissionLoop up to start_period(t_ini).  Phasor mode
\* reads CLOCK_REALTIME, sleeps to the next second of that clock and then
\* reads CLOCK_MONOTONIC into t_ini; COMTRADE mode reads CLOCK_MONOTONIC into
\* t_ini and moves it to a later whole second of that clock without sleeping
TimerAlign(late) ==
    /\ pc = "timing" /\ timing.pc = "align"
    /\ timing' =
           IF mode = "phasor"
           THEN LET now_realtime == Realtime(timing, timing.mono)
                    woke == Elapsed(Elapsed(timing.mono, 1, Second - now_realtime.tv_nsec),
                                    1, late)
                IN  [timing EXCEPT !.pc = "first", !.now_start = now_realtime,
                                   !.mono = woke, !.t_ini = woke, !.next_period = woke]
           ELSE LET t_ini == Timespec(IF timing.mono.tv_nsec > 500000000
                                      THEN timing.mono.tv_sec + 2
                                      ELSE timing.mono.tv_sec + 1, 0)
                IN  [timing EXCEPT !.pc = "first",
                                   !.now_start = Realtime(timing, timing.mono),
                                   !.t_ini = t_ini, !.next_period = t_ini]
    /\ UNCHANGED <<cfgFile, datFile, parser, loadRet, query, rx, progressCallback_>>
    /\ UNCHANGED <<objVars, txVars, ghostVars, mode, pc, lpc, spc, rxRef, cfgRet, runRet>>

\* timer.wait_period(waitPeriod), before the first frame and after every
\* frame; the sleep ends late nanoseconds after its target
TimerWait(late) ==
    /\ pc = "timing" /\ timing.pc \in {"first", "wait"}
    /\ timing.waits <= MaxTicks
    /\ timing' = wait_period(timing, late)
    /\ UNCHANGED <<cfgFile, datFile, parser, loadRet, query, rx, progressCallback_>>
    /\ UNCHANGED <<objVars, txVars, ghostVars, mode, pc, lpc, spc, rxRef, cfgRet, runRet>>

\* one frame handed to the socket and the rest of the iteration, which
\* together take k periods; immediate counts the waits that returned at once
\* since the loop last slept or spent a period
TimerSend(k) ==
    /\ pc = "timing" /\ timing.pc = "send"
    /\ timing.sends < MaxTicks
    /\ timing' = [timing EXCEPT !.pc = "wait",
                                !.sends = @ + 1,
                                !.firstSend = IF timing.sends = 0 THEN timing.mono ELSE @,
                                !.mono = Elapsed(@, k, timing.waitPeriod),
                                !.immediate = IF k = 0 THEN @ ELSE 0]
    /\ UNCHANGED <<cfgFile, datFile, parser, loadRet, query, rx, progressCallback_>>
    /\ UNCHANGED <<objVars, txVars, ghostVars, mode, pc, lpc, spc, rxRef, cfgRet, runRet>>

NextTimer ==
    \/ \E late \in {0, 1000} : TimerAlign(late)
    \/ \E late \in {0, 1000} : TimerWait(late)
    \/ \E k \in {0, 1, MaxOverrun} : TimerSend(k)

SpecTimer == InitTimer /\ [][NextTimer]_vars

(***************************************************************************)
(* Properties of the Timer                                                 *)
(***************************************************************************)
\* C32: after start_period(t_ini) and N calls of wait_period(waitPeriod),
\* next_period is t_ini + N * waitPeriod nanoseconds exactly, however long the
\* waits and the sends took, and its tv_nsec is in 0..10^9 - 1.  The sum is
\* formed in thousands of nanoseconds and a remainder below one thousand.
C32_NoDrift ==
    (pc = "timing" /\ timing.pc \in {"first", "send", "wait"}) =>
        LET N == timing.waits
            P == timing.waitPeriod
            t0 == timing.t_ini
            low == (t0.tv_nsec % 1000) + N * (P % 1000)
            high == (t0.tv_nsec \div 1000) + N * ((P % Second) \div 1000) + (low \div 1000)
        IN  /\ timing.next_period.tv_nsec >= 0
            /\ timing.next_period.tv_nsec < Second
            /\ timing.next_period.tv_sec
                   = t0.tv_sec + N * (P \div Second) + (high \div 1000000)
            /\ timing.next_period.tv_nsec = (high % 1000000) * 1000 + (low % 1000)

\* MaxTicks waits of more than a second each whose nanoseconds carried into
\* the seconds, after a send that overran
C32_CarriedTicks ==
    /\ pc = "timing"
    /\ timing.waits >= MaxTicks
    /\ timing.waitPeriod > Second
    /\ timing.next_period.tv_sec - timing.t_ini.tv_sec > timing.waits
    /\ ~TimeLeq(timing.mono, timing.next_period)

\* C33 (as written): for a positive period, when a wait_period of the loop
\* finds its tick already reached and returns at once, the tick it leaves is
\* ahead of the clock, and no two waits of the loop return at once with no
\* sleep and no period spent between them
C33_NoCatchUpBurst ==
    (pc = "timing" /\ timing.waitPeriod > 0) =>
        /\ timing.immediate <= 1
        /\ (timing.pc = "send" /\ timing.immediate >= 1) =>
               ~TimeLeq(timing.next_period, timing.mono)

(***************************************************************************)
(* Properties of the start of the transmit loops                           *)
(***************************************************************************)
\* C35 (as written): in both modes the first frame is handed to the socket
\* when CLOCK_REALTIME shows the first whole second after the reading taken at
\* the start (within a millisecond after it, and not a second later), and
\* t_ini, the origin given to start_period, is the CLOCK_MONOTONIC reading
\* taken at that second
C35_FirstFrameOnNextSecond ==
    (pc = "timing" /\ timing.sends >= 1) =>
        LET first == Realtime(timing, timing.firstSend)
            origin == Realtime(timing, timing.t_ini)
        IN  /\ first.tv_sec = timing.now_start.tv_sec + 1
            /\ first.tv_nsec < 1000000
            /\ origin.tv_sec = timing.now_start.tv_sec + 1
            /\ origin.tv_nsec < 1000000
            /\ TimeLeq(timing.t_ini, timing.firstSend)

(***************************************************************************)
(* Properties of the replay index                                          *)
(***************************************************************************)
\* C34: in COMTRADE replay every frame is built from a sample index in
\* 0..numSamples_ - 1; only the transmitter's send step produces a frame; the
\* first frame of a run has index 0 and each later one the index after that of
\* the frame before, which is 0 after numSamples_ - 1 and then only with
\* loopPlayback; and when the transmitter of a run without loopPlayback has
\* left its loop with running_ never cleared, numSamples_ frames were
\* submitted
C34_IndexInOrder ==
    /\ [](mode = "comtrade" /\ frame # NoFrame => frame.idx \in 0..(numSamples_ - 1))
    /\ []((/\ mode = "comtrade" /\ frame # NoFrame /\ clearedBy = "none"
           /\ ~config_.loopPlayback
           /\ pc \in {"join_check", "join_call", "joining", "run_ret"})
          => stats_.packetsSent + stats_.packetsFailed = numSamples_)
    /\ [][(mode = "comtrade" /\ frame' # NoFrame /\ frame' # frame) => pc = "tx_send"]_vars
    /\ [][(mode = "comtrade" /\ pc = "tx_send" /\ pc' \in {"tx_check", "join_check"}) =>
             /\ frame' # NoFrame
             /\ stats_'.packetsSent + stats_'.packetsFailed
                    = stats_.packetsSent + stats_.packetsFailed + 1
             /\ frame = NoFrame => frame'.idx = 0
             /\ frame # NoFrame =>
                    /\ frame'.idx = (frame.idx + 1) % numSamples_
                    /\ frame.idx + 1 = numSamples_ => config_.loopPlayback]_vars

\* a looping replay that has sent the last sample and then sample 0 again
C34_Wrapped ==
    /\ mode = "comtrade" /\ config_.loopPlayback
    /\ stats_.packetsSent + stats_.packetsFailed = numSamples_ + 1
    /\ frame.idx = 0
    /\ numSamples_ > 1

(***************************************************************************)
(* Properties of the running flag around run() and configure()             *)
(***************************************************************************)
\* C36 (as written): once run() has returned true, isRunning() is false
C36_NotRunningAfterRun ==
    (pc = "idle" /\ runRet = "true") => ~running_

(***************************************************************************)
(* configure() and run() called by another thread while isRunning()        *)
(***************************************************************************)
\* a configure() that assigns config_ before it tests running_
CallWhileRunningAssigns(call) ==
    /\ Alive /\ pc \notin {"idle", "escaped"} /\ running_
    /\ lastError_' = IF call = "configure" THEN "Cannot configure while test is running"
                     ELSE "Test is already running"
    /\ cfgRet' = IF call = "configure" THEN "fail" ELSE cfgRet
    /\ runRet' = IF call = "run" THEN "false" ELSE runRet
    /\ config_' = IF call = "configure" THEN DefaultConfig ELSE config_
    /\ UNCHANGED <<mode, numSamples_, resampledData_, stats_, running_, joinable,
                   pc, lpc, spc, rxRef>>
    /\ UNCHANGED <<txVars, ghostVars, unitVars>>

\* if (running_) { lastError_ = ...; return false; } of configure() (comtrade
\* 24-27, phasor 20-23) and of run() (comtrade 223-226, phasor 58-61), taken by
\* a call made from another thread while the thread inside run() is at pc;
\* cfgRet and runRet take what the call returned
CallWhileRunning(call) ==
    /\ Alive /\ pc \notin {"idle", "escaped"} /\ running_
    /\ lastError_' = IF call = "configure" THEN "Cannot configure while test is running"
                     ELSE "Test is already running"
    /\ cfgRet' = IF call = "configure" THEN "fail" ELSE cfgRet
    /\ runRet' = IF call = "run" THEN "false" ELSE runRet
    /\ UNCHANGED <<mode, config_, numSamples_, resampledData_, stats_, running_, joinable,
                   pc, lpc, spc, rxRef>>
    /\ UNCHANGED <<txVars, ghostVars, unitVars>>

\* the object of Spec with a third thread that calls configure() and run()
\* while isRunning()
SpecActive ==
    Init /\ [][Next \/ \E call \in {"configure", "run"} : CallWhileRunning(call)]_vars

C38_ReadsInsideSample ==
    (mode = "comtrade" /\ cfgRet = "ok") =>
        LET f == ParserLoad(config_.cfgFilePath)
        IN  \A m \in 1..Len(config_.channelMapping) :
                LET place == getAnalogChannel(f, config_.channelMapping[m][1])
                IN  \A i \in 1..Len(f.samples) :
                        f.channels[place].index < Len(f.samples[i]) =>
                            /\ f.channels[place].index >= 0
                            /\ f.channels[place].index + 1 = place

(***************************************************************************)
(* Properties of decodeGoose's reads                                       *)
(***************************************************************************)
\* C39: for every frame given to decodeGoose, whole or cut at any length,
\* every byte read has an offset inside the packet, and the TLV loop ends
\* after fewer iterations than the packet has bytes, each iteration beginning
\* at a larger offset than the one before
C39_ReadsInsidePacket ==
    rx.called =>
        LET t == DecodeTrace(rx.frame)
        IN  /\ t.reads \subseteq 0..(Len(rx.frame) - 1)
            /\ Len(t.starts) < Len(rx.frame) \/ t.starts = << >>
            /\ \A i \in 1..(Len(t.starts) - 1) : t.starts[i] < t.starts[i + 1]
            /\ t.starts # << >> => t.starts[Len(t.starts)] < t.offset \/ t.breaks

\* a frame whose PDU announces more bytes than the frame holds, decoded in
\* five iterations over fields with long-form lengths
C39_LongFormsDecoded ==
    /\ rx.called /\ rx.msg.valid
    /\ DecodeTrace(rx.frame).pduEnd > Len(rx.frame)
    /\ Len(DecodeTrace(rx.frame).starts) >= 5
    /\ ~DecodeTrace(rx.frame).breaks

==========================================================================
